---- MODULE Spec2Model ----
(***************************************************************************)
(* kintone-backup-scheduler: the backup/restore engine (BackupManager),    *)
(* the metadata store (DatabaseManager), the remote client's request and   *)
(* retry counters (KintoneClient) and the live kintone service, as one     *)
(* state machine.  backupApp and restoreBackup are async functions: each   *)
(* awaited call and each autocommitted SQL statement is one step, and the  *)
(* program counter pc forces the steps in the order of the code.  The      *)
(* other events (edits of live records, the clock, other handlers touching *)
(* the database) are interleaved where their order against the steps of    *)
(* the running function can be observed: while no function runs, while a   *)
(* backup waits between its fetch and its finalization.  Failures are     *)
(* injected at every call that can fail, up to MaxErr in one behaviour;    *)
(* the write of the catch block of backupApp may fail on top of that.      *)
(* The methods of KintoneClient, the retry options given to axios-retry,   *)
(* cleanRecordForRestore and the archive codec are also modelled one call  *)
(* at a time (SpecRetry, SpecRecords, SpecBatch, SpecFind, SpecClean,      *)
(* SpecCodec): the variable `call` holds the call, its argument drawn from *)
(* a bounded set, its loop position and its result.                        *)
(***************************************************************************)
EXTENDS Integers, Sequences, FiniteSets, TLC

\* ---------------------------------------------------------------- bounds
MaxRuns == 2      \* backupApp / restoreBackup invocations in one behaviour
MaxTime == 2      \* clock values 1..MaxTime
MaxEdits == 1     \* edits and deletions of live records by other users in one behaviour
MaxErr  == 1      \* failures (failed attempts of remote calls, faults) in one behaviour
MaxRecords == 1001       \* records one getAllRecords call returns, on its own
MaxBatchRecords == 201   \* records given to one addRecords / updateRecords call
MaxKeys == 101           \* keys given to one findRecordIdsByRecordNumbers call
MaxArchived == 3         \* records written to one archive, on its own

Apps   == {1, 2}
RecIds == {1, 2}
Kinds  == {"full", "differential"}

\* ------------------------------------------------------------- constants
NULL     == -1            \* SQL NULL in an integer / time column
NoFile   == <<>>          \* SQL NULL in backups.file_path
NoErr    == "none"        \* SQL NULL in backups.error_details
PageSize == 500           \* records per page assumed by getAllRecords
batchSize == 100          \* records per request of addRecords / updateRecords
keyBatchSize == 50        \* keys per query of findRecordIdsByRecordNumbers

\* ---------------------------------------------------------------- state
VARIABLES
    backups,          \* table backups: id -> row
    nextId,           \* AUTOINCREMENT of backups.id
    apps,             \* table apps: app_id -> row
    record_index,     \* table record_index: <<app_id, record_id>> -> row
    live,             \* the live service: app -> record id -> [upd, rev]
    archives,         \* archivesDir: file name -> [recs, count, schema]
    auditLog,         \* rows of the audit app, in insertion order
    now,              \* the clock
    apiRequestCount,  \* KintoneClient.apiRequestCount
    retryCount,       \* KintoneClient.retryCount
    currentBackupId,  \* BackupManager.currentBackupId
    recordNumberFieldCache,  \* KintoneClient: apps whose record-number field is cached
    pc,               \* position of the running function
    loc,              \* its local variables
    res,              \* outcome of the last finished invocation
    runs,             \* invocations started so far
    edits,            \* edits of live records so far
    errs,             \* failures so far
    h,                \* history of the running / last invocation
    sched,            \* runScheduledBackup: its apps list, position and results
    call              \* a function applied on its own: name, argument, result

vars == <<backups, nextId, apps, record_index, live, archives, auditLog,
          now, apiRequestCount, retryCount, currentBackupId,
          recordNumberFieldCache, pc, loc, res, runs, edits, errs, h, sched, call>>

dbVars     == <<backups, nextId, apps, record_index>>
clientVars == <<apiRequestCount, retryCount, errs>>

\* --------------------------------------------------------------- helpers
Put(f, k, v) == [x \in DOMAIN f \cup {k} |-> IF x = k THEN v ELSE f[x]]

Remove(f, S) == [x \in DOMAIN f \ S |-> f[x]]

Merge(row, upd) == [c \in DOMAIN row |-> IF c \in DOMAIN upd THEN upd[c] ELSE row[c]]

CeilDiv(n, d) == (n + d - 1) \div d

Min(S) == CHOOSE x \in S : \A y \in S : x <= y

NoRec == [upd |-> 0, rev |-> 0]

Exists(a, r) == live[a][r].rev > 0

\* ----------------------------------------------------- DatabaseManager
\* insertBackup: columns the caller leaves out are bound as NULL.
NewBackupRow(appId, backupType, triggerType, startTime) ==
    [app_id |-> appId, app_name |-> 0,
     backup_type |-> backupType, trigger_type |-> triggerType,
     start_time |-> startTime, end_time |-> NULL, duration_seconds |-> NULL,
     record_count |-> NULL, file_path |-> NoFile, status |-> "running",
     error_details |-> NoErr, api_request_count |-> 0, retry_count |-> 0,
     diff_base_datetime |-> NULL]

insertBackup(tbl, id, row) == Put(tbl, id, row)

\* updateBackup: UPDATE backups SET ... WHERE id = ? (no row: no effect).
updateBackup(tbl, id, upd) ==
    IF id \in DOMAIN tbl THEN [tbl EXCEPT ![id] = Merge(tbl[id], upd)] ELSE tbl

getBackupById(tbl, id) == IF id \in DOMAIN tbl THEN tbl[id] ELSE NULL

\* A variant of deleteBackup that leaves the markers in place.
deleteIndexOfNone(idx, id) == idx

\* deleteBackup: markers of the run, then the run.
deleteIndexOf(idx, id) ==
    Remove(idx, {k \in DOMAIN idx : idx[k].last_backup_id = id})

\* upsertApp: insert, or on conflict update name and active flag only.
upsertApp(tbl, a, active) ==
    IF a \in DOMAIN tbl
    THEN [tbl EXCEPT ![a].is_active = active]
    ELSE Put(tbl, a, [is_active |-> active, last_backup_datetime |-> NULL,
                      last_full_backup_datetime |-> NULL])

\* A variant of updateAppLastBackup that advances the full-backup time on
\* every call, whatever the flag.
updateAppLastBackupAnyType(tbl, a, t, isFull) ==
    IF a \in DOMAIN tbl
    THEN [tbl EXCEPT ![a] =
            [@ EXCEPT !.last_backup_datetime = t, !.last_full_backup_datetime = t]]
    ELSE tbl

\* updateAppLastBackup: UPDATE apps SET ... WHERE app_id = ? (no row: no effect).
updateAppLastBackup(tbl, a, t, isFull) ==
    IF a \in DOMAIN tbl
    THEN [tbl EXCEPT ![a] =
            [@ EXCEPT !.last_backup_datetime = t,
                      !.last_full_backup_datetime = IF isFull THEN t ELSE @]]
    ELSE tbl

upsertRecordIndex(idx, a, r, updatedTime, backupId) ==
    Put(idx, <<a, r>>, [updated_time |-> updatedTime, last_backup_id |-> backupId])

\* getLastBackupDatetime: the apps row, or undefined (NULL) when absent.
getLastBackupDatetime(tbl, a) ==
    IF a \in DOMAIN tbl THEN tbl[a].last_backup_datetime ELSE NULL

getLastFullBackupDatetime(tbl, a) ==
    IF a \in DOMAIN tbl THEN tbl[a].last_full_backup_datetime ELSE NULL

\* ------------------------------------------------------- KintoneClient
\* getAllRecords(appId): every live record of the app.
AllRecords(a) == {r \in RecIds : Exists(a, r)}

\* getDifferentialRecords: server-side filter  updated-time > sinceDateTime.
\* A variant of getDifferentialRecords whose query is ">=" instead of ">".
DifferentialRecordsInclusive(a, since) ==
    {r \in RecIds : Exists(a, r) /\ live[a][r].upd >= since}

DifferentialRecords(a, since) == {r \in RecIds : Exists(a, r) /\ live[a][r].upd > since}

Snapshot(a, S) == [r \in S |-> live[a][r]]

\* getAllRecords counts one request, then adds ceil(n / 500) - 1.
RecordsRequests(n) == 1 + (CeilDiv(n, PageSize) - 1)

\* The page requests the service really answers for n records.
Pages(n) == IF n = 0 THEN 1 ELSE CeilDiv(n, PageSize)

\* ---------------------------------------------------------- BackupManager
Loc0 ==
    [op |-> "none", appId |-> 0, backupType |-> "none", startTime |-> NULL,
     records |-> <<>>, diffBase |-> NULL, todo |-> {}, zipName |-> NoFile,
     endTime |-> NULL, err |-> NoErr,
     backupId |-> 0, selected |-> {}, row |-> NULL, updates |-> {}, adds |-> {},
     updateFailed |-> FALSE, addFailed |-> FALSE, updatedCount |-> 0,
     addedCount |-> 0, status |-> "none"]

Res0 ==
    [op |-> "none", kind |-> "none", success |-> FALSE, recordCount |-> NULL,
     err |-> NoErr, id |-> 0, appId |-> 0, backupType |-> "none", status |-> "none"]

\* History of one invocation: requests really sent (reqs), requests counted
\* (counted), failed attempts counted (retries), what was written, the error
\* raised, the values of the apps row when it started, whether the field
\* schema could not be fetched for the archive; for restoreBackup the
\* subset asked for, the ids in the archive, the keys the service resolved,
\* the two partitions and what was sent in each attempt.
H0 ==
    [reqs |-> 0, counted |-> 0, retries |-> 0, fetched |-> NULL, zips |-> 0,
     downloads |-> 0, dlFailed |-> 0, markers |-> 0, audits |-> 0,
     audit |-> "none", status |-> "none", path |-> "none", raised |-> NoErr,
     baseLast |-> NULL, baseFull |-> NULL, premise |-> FALSE,
     sel |-> {}, archived |-> {}, resolved |-> {}, mapFailed |-> FALSE,
     updates |-> {}, adds |-> {}, sentUpd |-> {}, sentAdd |-> {},
     triedUpd |-> FALSE, triedAdd |-> FALSE, schemaFailed |-> FALSE,
     entry |-> <<>>]

\* No function is applied on its own.
Call0 == [fn |-> "none", arg |-> <<>>, out |-> <<>>, done |-> FALSE]

\* runScheduledBackup before it is called: no apps list, no results.
Sched0 == [job |-> "none", order |-> <<>>, next |-> 1, results |-> <<>>]

EnvTurn == pc \in {"idle", "b_zip"}

\* Records of app 1 exist before the first backup; app 2 starts empty.
Live0 ==
    [a \in Apps |-> [r \in RecIds |-> IF a = 1 THEN [upd |-> 1, rev |-> 1] ELSE NoRec]]

\* The state after construction, before any call.
Start ==
    /\ backups = <<>>
    /\ nextId = 1
    /\ apps = <<>>
    /\ record_index = <<>>
    /\ live = Live0
    /\ archives = <<>>
    /\ auditLog = <<>>
    /\ now = 1
    /\ apiRequestCount = 0
    /\ retryCount = 0
    /\ currentBackupId = NULL
    /\ recordNumberFieldCache = {}
    /\ pc = "idle"
    /\ loc = Loc0
    /\ res = Res0
    /\ runs = 0
    /\ edits = 0
    /\ errs = 0
    /\ h = H0
    /\ sched = Sched0

Init == Start /\ call = Call0

\* ------------------------------------------------------------ environment
envFrame == <<clientVars, currentBackupId,
              recordNumberFieldCache, pc, loc, res, runs>>

Tick ==
    /\ pc = "idle"
    /\ now < MaxTime
    /\ now' = now + 1
    /\ UNCHANGED <<dbVars, live, archives, auditLog, envFrame, edits, h>>
    /\ UNCHANGED <<sched, call>>

\* Another user adds or edits a record of the live app: the service stamps
\* the update time and increments the revision.
EditRecord(a, r) ==
    /\ EnvTurn
    /\ edits < MaxEdits
    /\ edits' = edits + 1
    /\ live' = [live EXCEPT ![a][r] = [upd |-> now, rev |-> @.rev + 1]]
    /\ UNCHANGED <<dbVars, archives, auditLog, envFrame, now, h>>
    /\ UNCHANGED <<sched, call>>

\* Another user deletes a record of the live app.
RemoveRecord(a, r) ==
    /\ pc = "idle"
    /\ edits < MaxEdits
    /\ Exists(a, r)
    /\ edits' = edits + 1
    /\ live' = [live EXCEPT ![a][r] = NoRec]
    /\ UNCHANGED <<dbVars, archives, auditLog, envFrame, now, h>>
    /\ UNCHANGED <<sched, call>>

UpsertApp(a, active) ==
    /\ pc = "idle"
    /\ runs = 0
    /\ apps' = upsertApp(apps, a, active)
    /\ apps' # apps
    /\ UNCHANGED <<backups, nextId, record_index, live, archives, auditLog,
                   envFrame, now, edits, h>>
    /\ UNCHANGED <<sched, call>>

\* The delete-backup handler: the run is loaded, its archive file removed
\* (path.join throws on a NULL file_path, before anything is deleted), then
\* db.deleteBackup deletes the markers of the run and the run.
DeleteBackup(id) ==
    /\ pc = "idle"
    /\ id \in DOMAIN backups
    /\ backups[id].file_path # NoFile
    /\ archives' = Remove(archives, {backups[id].file_path})
    /\ record_index' = deleteIndexOf(record_index, id)
    /\ backups' = Remove(backups, {id})
    /\ UNCHANGED <<nextId, apps, live, auditLog, envFrame, now, edits, h, sched>>

\* The same handler when the second DELETE of db.deleteBackup throws (or the
\* process stops between the two statements): each statement commits alone.
DeleteBackupFault(id) ==
    /\ pc = "idle"
    /\ id \in DOMAIN backups
    /\ backups[id].file_path # NoFile
    /\ errs < MaxErr
    /\ errs' = errs + 1
    /\ archives' = Remove(archives, {backups[id].file_path})
    /\ record_index' = deleteIndexOf(record_index, id)
    /\ UNCHANGED <<backups, nextId, apps, live, auditLog, apiRequestCount,
                   retryCount, currentBackupId, recordNumberFieldCache, pc, loc,
                   res, runs, now, edits, h, sched, call>>

\* ------------------------------------------------- KintoneClient counters
\* One remote call: the request counter moves by n; retryCondition runs once
\* for each of the e failed attempts of the call and counts each of them.
Count(n, e) ==
    /\ errs + e <= MaxErr
    /\ errs' = errs + e
    /\ apiRequestCount' = apiRequestCount + n
    /\ retryCount' = retryCount + e

\* A statement of the metadata store or a file operation throws, after n
\* requests were counted.
Fault(n) ==
    /\ errs < MaxErr
    /\ errs' = errs + 1
    /\ apiRequestCount' = apiRequestCount + n
    /\ UNCHANGED retryCount

\* The history of an invocation after a call of n requests and e failed attempts.
Called(n, e) == [h EXCEPT !.reqs = @ + n, !.counted = @ + n, !.retries = @ + e]

\* resetCounters
\* A variant of resetCounters that keeps both counters.
resetCountersKeep == UNCHANGED <<apiRequestCount, retryCount>>

resetCounters ==
    /\ apiRequestCount' = 0
    /\ retryCount' = 0

getStats == [apiRequestCount |-> apiRequestCount, retryCount |-> retryCount]

\* --------------------------------------------------------------- backupApp
bFrame == <<live, auditLog, now, edits, recordNumberFieldCache>>

\* backupApp, entry: insertBackup(status running), then getApp is awaited.
BStart(a, k) ==
    /\ pc = "idle"
    /\ runs < MaxRuns
    /\ runs' = runs + 1
    /\ currentBackupId' = nextId
    /\ backups' = insertBackup(backups, nextId, NewBackupRow(a, k, IF sched.job = "scheduled" THEN "schedule" ELSE "manual", now))
    /\ nextId' = nextId + 1
    /\ loc' = [Loc0 EXCEPT !.op = "backup", !.appId = a, !.backupType = k,
                           !.startTime = now]
    /\ res' = Res0
    /\ h' = [H0 EXCEPT !.baseLast = getLastBackupDatetime(apps, a),
                       !.baseFull = getLastFullBackupDatetime(apps, a)]
    /\ pc' = "b_getApp"
    /\ UNCHANGED <<apps, record_index, archives, clientVars, bFrame>>
    /\ UNCHANGED <<sched, call>>

\* insertBackup throws (outside the try block): no row, nothing to finalize.
BStartFail(a, k) ==
    /\ pc = "idle"
    /\ runs < MaxRuns
    /\ runs' = runs + 1
    /\ res' = [Res0 EXCEPT !.op = "backup", !.kind = "thrown", !.err = "db",
                           !.appId = a, !.backupType = k]
    /\ h' = [H0 EXCEPT !.baseLast = getLastBackupDatetime(apps, a),
                       !.baseFull = getLastFullBackupDatetime(apps, a),
                       !.raised = "db"]
    /\ Fault(0)
    /\ pc' = "done"
    /\ UNCHANGED <<dbVars, archives, currentBackupId, loc, bFrame>>
    /\ UNCHANGED <<sched, call>>

\* getApp resolves (after e retried attempts).
BGetApp ==
    /\ pc = "b_getApp"
    /\ \E e \in 0..MaxErr : Count(1, e) /\ h' = Called(1, e)
    /\ pc' = "b_setName"
    /\ UNCHANGED <<dbVars, archives, currentBackupId, loc, res, runs, bFrame>>
    /\ UNCHANGED <<sched, call>>

\* getApp or the record fetch rejects: control passes to the catch block.
BRemoteFail ==
    /\ pc \in {"b_getApp", "b_fetch"}
    /\ Count(1, 1)
    /\ h' = [Called(1, 1) EXCEPT !.raised = "remote"]
    /\ loc' = [loc EXCEPT !.err = "remote"]
    /\ pc' = "b_catch"
    /\ UNCHANGED <<dbVars, archives, currentBackupId, res, runs, bFrame>>
    /\ UNCHANGED <<sched, call>>

\* updateBackup(currentBackupId, {app_name})
BSetName ==
    /\ pc = "b_setName"
    /\ backups' = updateBackup(backups, currentBackupId, [app_name |-> loc.appId])
    /\ pc' = "b_fetch"
    /\ UNCHANGED <<nextId, apps, record_index, archives, clientVars, currentBackupId,
                   loc, res, runs, h, bFrame>>
    /\ UNCHANGED <<sched, call>>

\* The baseline a backup of this kind uses, NULL for a full fetch.
Baseline(k, last) == IF k = "differential" /\ last # NULL THEN last ELSE NULL

\* The record set fetched for a baseline.
Fetched(a, base) == IF base # NULL THEN DifferentialRecords(a, base) ELSE AllRecords(a)

\* A successful run of the app exists and no record has been created,
\* updated or deleted by anyone since the start of the behaviour.
Unchanged(a) ==
    /\ edits = 0
    /\ \E id \in DOMAIN backups :
          backups[id].app_id = a /\ backups[id].status = "success"

\* Record fetch: differential with a stored last_backup_datetime asks for the
\* records changed since then, everything else fetches all records.
BFetch ==
    /\ pc = "b_fetch"
    /\ LET base == Baseline(loc.backupType, getLastBackupDatetime(apps, loc.appId))
           recs == Fetched(loc.appId, base)
       IN /\ loc' = [loc EXCEPT !.diffBase = base, !.records = Snapshot(loc.appId, recs)]
          /\ \E e \in 0..MaxErr :
                /\ Count(RecordsRequests(Cardinality(recs)), e)
                /\ h' = [Called(RecordsRequests(Cardinality(recs)), e) EXCEPT
                            !.reqs = h.reqs + Pages(Cardinality(recs)),
                            !.fetched = Cardinality(recs),
                            !.premise = Unchanged(loc.appId)]
    /\ pc' = "b_fetched"
    /\ UNCHANGED <<dbVars, archives, currentBackupId, res, runs, bFrame>>
    /\ UNCHANGED <<sched, call>>

\* records.length === 0 ?  The archive name carries the time of this moment.
BBranch ==
    /\ pc = "b_fetched"
    /\ IF DOMAIN loc.records = {}
       THEN /\ pc' = "b_emptyFinal"
            /\ loc' = loc
       ELSE /\ pc' = "b_zip"
            /\ loc' = [loc EXCEPT !.zipName = <<loc.appId, now, loc.backupType>>]
    /\ UNCHANGED <<dbVars, archives, clientVars, currentBackupId, res, runs,
                   h, bFrame>>
    /\ UNCHANGED <<sched, call>>

\* The finally block of backupApp / restoreBackup, with the outcome recorded.
Finish(result) ==
    /\ res' = result
    /\ resetCounters
    /\ pc' = "done"
    /\ loc' = Loc0
    /\ UNCHANGED errs

Returned ==
    [Res0 EXCEPT !.op = "backup", !.kind = "returned", !.success = TRUE,
                 !.recordCount = Cardinality(DOMAIN loc.records),
                 !.id = currentBackupId, !.appId = loc.appId,
                 !.backupType = loc.backupType, !.status = "success"]

\* A variant of the empty finalization that leaves record_count unset.
EmptyFieldsNoCount ==
    [end_time |-> now, duration_seconds |-> now - loc.startTime,
     status |-> "success",
     api_request_count |-> getStats.apiRequestCount,
     retry_count |-> getStats.retryCount,
     diff_base_datetime |-> loc.diffBase]

\* The columns written when the record set is empty.
EmptyFields ==
    [end_time |-> now, duration_seconds |-> now - loc.startTime,
     record_count |-> 0, status |-> "success",
     api_request_count |-> getStats.apiRequestCount,
     retry_count |-> getStats.retryCount,
     diff_base_datetime |-> loc.diffBase]

\* Empty record set: finalize as success with record_count 0 and return.
BEmptyFinal ==
    /\ pc = "b_emptyFinal"
    /\ backups' = updateBackup(backups, currentBackupId, EmptyFields)
    /\ Finish(Returned)
    /\ h' = [h EXCEPT !.path = "empty"]
    /\ UNCHANGED <<nextId, apps, record_index, archives, currentBackupId, runs, bFrame>>
    /\ UNCHANGED <<sched, call>>

\* App 1 has one FILE field, and each of its records holds one file in it;
\* app 2 has no FILE field.
FileFields(a) == IF a = 1 THEN {"file"} ELSE {}

HasFile(a, r, f) == a = 1 /\ f = "file"

\* findAttachmentFields: the FILE fields of the first record.
findAttachmentFields(a, recs) == IF recs = {} THEN {} ELSE FileFields(a)

\* The records for which downloadAttachments requests a file.
Attachments(a, recs) ==
    {r \in recs : \E f \in findAttachmentFields(a, recs) : HasFile(a, r, f)}

\* A variant of createBackupZip that rejects when getFormFields fails.
BZipSchemaRejects ==
    /\ pc = "b_zip"
    /\ \E schema \in BOOLEAN, e \in 0..MaxErr :
         /\ ~schema => e = 1
         /\ Count(1, e)
         /\ h' = [Called(1, e) EXCEPT !.zips = @ + 1, !.schemaFailed = ~schema,
                                      !.raised = IF schema THEN @ ELSE "zip"]
         /\ archives' = IF schema
                        THEN Put(archives, loc.zipName,
                                 [recs |-> loc.records,
                                  count |-> Cardinality(DOMAIN loc.records),
                                  schema |-> schema])
                        ELSE archives
         /\ pc' = IF schema THEN "b_download" ELSE "b_catch"
    /\ loc' = [loc EXCEPT !.todo = Attachments(loc.appId, DOMAIN loc.records)]
    /\ UNCHANGED <<dbVars, currentBackupId, res, runs, bFrame>>
    /\ UNCHANGED <<sched, call>>

\* createBackupZip: records.json and the manifest; getFormFields may fail,
\* which leaves fieldProperties null.
BZip ==
    /\ pc = "b_zip"
    /\ \E schema \in BOOLEAN, e \in 0..MaxErr :
         /\ ~schema => e = 1
         /\ Count(1, e)
         /\ h' = [Called(1, e) EXCEPT !.zips = @ + 1, !.schemaFailed = ~schema]
         /\ archives' = Put(archives, loc.zipName,
                            [recs |-> loc.records,
                             count |-> Cardinality(DOMAIN loc.records),
                             schema |-> schema])
    /\ loc' = [loc EXCEPT !.todo = Attachments(loc.appId, DOMAIN loc.records)]
    /\ pc' = "b_download"
    /\ UNCHANGED <<dbVars, currentBackupId, res, runs, bFrame>>
    /\ UNCHANGED <<sched, call>>

\* createBackupZip rejects (archiver error).
BZipFail ==
    /\ pc = "b_zip"
    /\ Fault(1)
    /\ h' = [Called(1, 0) EXCEPT !.raised = "zip"]
    /\ loc' = [loc EXCEPT !.err = "zip"]
    /\ pc' = "b_catch"
    /\ UNCHANGED <<dbVars, archives, currentBackupId, res, runs, bFrame>>
    /\ UNCHANGED <<sched, call>>

\* downloadAttachments, one file: downloadFile resolves and the file is written.
BDownload ==
    /\ pc = "b_download"
    /\ loc.todo # {}
    /\ \E e \in 0..MaxErr : Count(1, e) /\ h' = [Called(1, e) EXCEPT !.downloads = @ + 1]
    /\ loc' = [loc EXCEPT !.todo = @ \ {Min(loc.todo)}]
    /\ UNCHANGED <<dbVars, archives, currentBackupId, pc, res, runs, bFrame>>
    /\ UNCHANGED <<sched, call>>

\* A variant of downloadAttachments that does not catch the failure of a file.
BDownloadFailRaises ==
    /\ pc = "b_download"
    /\ loc.todo # {}
    /\ Count(1, 1)
    /\ h' = [Called(1, 1) EXCEPT !.dlFailed = @ + 1, !.raised = "remote"]
    /\ loc' = [loc EXCEPT !.err = "remote"]
    /\ pc' = "b_catch"
    /\ UNCHANGED <<dbVars, archives, currentBackupId, res, runs, bFrame>>
    /\ UNCHANGED <<sched, call>>

\* downloadAttachments, one file: the download fails, is logged and skipped.
BDownloadFail ==
    /\ pc = "b_download"
    /\ loc.todo # {}
    /\ Count(1, 1)
    /\ h' = [Called(1, 1) EXCEPT !.dlFailed = @ + 1]
    /\ loc' = [loc EXCEPT !.todo = @ \ {Min(loc.todo)}]
    /\ UNCHANGED <<dbVars, archives, currentBackupId, pc, res, runs, bFrame>>
    /\ UNCHANGED <<sched, call>>

\* downloadAttachments returns; fs.stat; the marker loop starts.
BDownloaded ==
    /\ pc = "b_download"
    /\ loc.todo = {}
    /\ loc' = [loc EXCEPT !.todo = DOMAIN loc.records]
    /\ pc' = "b_markers"
    /\ UNCHANGED <<dbVars, archives, clientVars, currentBackupId, res, runs,
                   h, bFrame>>
    /\ UNCHANGED <<sched, call>>

\* record.$revision.value || record[update time].value || startTime
MarkerTime(rec, startTime) ==
    IF rec.rev # 0 THEN rec.rev ELSE IF rec.upd # 0 THEN rec.upd ELSE startTime

\* One iteration of the marker loop, in record order.
BMarker ==
    /\ pc = "b_markers"
    /\ LET r == Min(loc.todo)
       IN /\ record_index' = upsertRecordIndex(record_index, loc.appId, r,
                                 MarkerTime(loc.records[r], loc.startTime),
                                 currentBackupId)
          /\ loc' = [loc EXCEPT !.todo = @ \ {r}]
          /\ pc' = IF loc.todo = {r} THEN "b_final" ELSE "b_markers"
    /\ h' = [h EXCEPT !.markers = @ + 1]
    /\ UNCHANGED <<backups, nextId, apps, archives, clientVars, currentBackupId,
                   res, runs, bFrame>>
    /\ UNCHANGED <<sched, call>>

\* A variant of the success finalization that omits file_path.
FinalFieldsNoPath ==
    [end_time |-> now, duration_seconds |-> now - loc.startTime,
     record_count |-> Cardinality(DOMAIN loc.records),
     status |-> "success",
     api_request_count |-> getStats.apiRequestCount,
     retry_count |-> getStats.retryCount,
     diff_base_datetime |-> loc.diffBase]

\* The columns written when the archive is complete.
FinalFields ==
    [end_time |-> now, duration_seconds |-> now - loc.startTime,
     record_count |-> Cardinality(DOMAIN loc.records),
     file_path |-> loc.zipName, status |-> "success",
     api_request_count |-> getStats.apiRequestCount,
     retry_count |-> getStats.retryCount,
     diff_base_datetime |-> loc.diffBase]

\* updateBackup(currentBackupId, {..., status: success})
BFinal ==
    /\ pc = "b_final"
    /\ backups' = updateBackup(backups, currentBackupId, FinalFields)
    /\ loc' = [loc EXCEPT !.endTime = now]
    /\ pc' = "b_last"
    /\ h' = [h EXCEPT !.path = "archived"]
    /\ UNCHANGED <<nextId, apps, record_index, archives, clientVars, currentBackupId,
                   res, runs, bFrame>>
    /\ UNCHANGED <<sched, call>>

\* updateAppLastBackup(appId, endTime, backupType === 'full')
BLast ==
    /\ pc = "b_last"
    /\ apps' = updateAppLastBackup(apps, loc.appId, loc.endTime, loc.backupType = "full")
    /\ pc' = "b_audit"
    /\ UNCHANGED <<backups, nextId, record_index, archives, clientVars, currentBackupId,
                   loc, res, runs, h, bFrame>>
    /\ UNCHANGED <<sched, call>>

\* A statement of the metadata store throws inside the try block.
BDbFault ==
    /\ pc \in {"b_setName", "b_emptyFinal", "b_markers", "b_final", "b_last"}
    /\ loc' = [loc EXCEPT !.err = "db"]
    /\ pc' = "b_catch"
    /\ Fault(0)
    /\ h' = [h EXCEPT !.raised = "db"]
    /\ UNCHANGED <<dbVars, archives, currentBackupId, res, runs, bFrame>>
    /\ UNCHANGED <<sched, call>>

Thrown ==
    [Res0 EXCEPT !.op = loc.op, !.kind = "thrown", !.err = loc.err,
                 !.id = currentBackupId, !.appId = loc.appId,
                 !.backupType = loc.backupType]

\* A variant of the catch block that records the error but not the status.
CatchFieldsNoStatus ==
    [end_time |-> now, duration_seconds |-> now - loc.startTime,
     error_details |-> loc.err,
     api_request_count |-> getStats.apiRequestCount,
     retry_count |-> getStats.retryCount]

\* The columns written by the catch block.
CatchFields ==
    [end_time |-> now, duration_seconds |-> now - loc.startTime,
     status |-> "failure", error_details |-> loc.err,
     api_request_count |-> getStats.apiRequestCount,
     retry_count |-> getStats.retryCount]

\* catch: finalize the run as failure, rethrow; finally: reset the counters.
BCatch ==
    /\ pc = "b_catch"
    /\ backups' = updateBackup(backups, currentBackupId, CatchFields)
    /\ Finish(Thrown)
    /\ UNCHANGED <<nextId, apps, record_index, archives, currentBackupId, runs,
                   h, bFrame>>
    /\ UNCHANGED <<sched, call>>

\* The updateBackup of the catch block throws: the row keeps what it had and
\* the new error leaves backupApp in place of the one caught; finally runs.
BCatchFail ==
    /\ pc = "b_catch"
    /\ Finish([Thrown EXCEPT !.err = "finalize"])
    /\ UNCHANGED <<dbVars, archives, currentBackupId, runs, h, bFrame>>
    /\ UNCHANGED <<sched, call>>

\* logToKintoneBackupApp when config.kintone.backupAppId is not set (the
\* configuration is an input of the invocation): warn and return.
AuditSkip(next, entry) ==
    /\ h' = [h EXCEPT !.audit = "skipped", !.status = entry.status,
                      !.entry = entry]
    /\ pc' = next
    /\ UNCHANGED <<auditLog, clientVars>>

\* logToBackupApp adds the audit row.
AuditOk(next, entry) ==
    /\ \E e \in 0..MaxErr :
         /\ Count(1, e)
         /\ h' = [Called(1, e) EXCEPT !.audits = @ + 1, !.audit = "written",
                                      !.status = entry.status, !.entry = entry]
    /\ auditLog' = Append(auditLog, entry)
    /\ pc' = next

\* A variant in which the failure of the audit write is not caught.
AuditFailRaised(next, entry) ==
    /\ Count(1, 1)
    /\ h' = [Called(1, 1) EXCEPT !.audits = @ + 1, !.audit = "failed",
                                 !.status = entry.status, !.raised = "audit"]
    /\ pc' = IF next = "b_ret" THEN "b_catch" ELSE "r_catch"
    /\ UNCHANGED auditLog

\* addRecord fails: logToBackupApp catches the error and returns null.
AuditFail(next, entry) ==
    /\ Count(1, 1)
    /\ h' = [Called(1, 1) EXCEPT !.audits = @ + 1, !.audit = "failed",
                                 !.status = entry.status, !.entry = entry]
    /\ pc' = next
    /\ UNCHANGED auditLog

BackupEntry ==
    [backup_type |-> loc.backupType, target_app_id |-> loc.appId,
     record_count |-> Cardinality(DOMAIN loc.records), status |-> "success",
     file_path |-> loc.zipName, added |-> 0, updated |-> 0, ref |-> 0]

BAuditSkip ==
    /\ pc = "b_audit"
    /\ AuditSkip("b_ret", BackupEntry)
    /\ UNCHANGED <<dbVars, live, archives, now, currentBackupId, loc,
                   res, runs, edits, recordNumberFieldCache>>
    /\ UNCHANGED <<sched, call>>

BAuditOk ==
    /\ pc = "b_audit"
    /\ AuditOk("b_ret", BackupEntry)
    /\ UNCHANGED <<dbVars, live, archives, now, currentBackupId, loc,
                   res, runs, edits, recordNumberFieldCache>>
    /\ UNCHANGED <<sched, call>>

BAuditFail ==
    /\ pc = "b_audit"
    /\ AuditFail("b_ret", BackupEntry)
    /\ UNCHANGED <<dbVars, live, archives, now, currentBackupId, loc,
                   res, runs, edits, recordNumberFieldCache>>
    /\ UNCHANGED <<sched, call>>

\* logBackupSuccess; return {success: true, recordCount}; finally.
BReturn ==
    /\ pc = "b_ret"
    /\ Finish(Returned)
    /\ UNCHANGED <<dbVars, archives, currentBackupId, runs, h, bFrame>>
    /\ UNCHANGED <<sched, call>>

\* ------------------------------------------------------------ restoreBackup
rFrame == <<dbVars, archives, now, currentBackupId, runs, edits>>

\* restoreBackup, entry: the run is loaded; extraction is awaited.
RStart(id, sel) ==
    /\ pc = "idle"
    /\ runs < MaxRuns
    /\ id \in DOMAIN backups
    /\ runs' = runs + 1
    /\ loc' = [Loc0 EXCEPT !.op = "restore", !.backupId = id, !.row = backups[id],
                           !.appId = backups[id].app_id, !.selected = sel,
                           !.startTime = now]
    /\ res' = Res0
    /\ h' = H0
    /\ pc' = "r_extract"
    /\ UNCHANGED <<dbVars, live, archives, auditLog, now, clientVars,
                   currentBackupId, recordNumberFieldCache, edits>>
    /\ UNCHANGED <<sched, call>>

\* The run does not exist: thrown before the try block, so no finally runs.
RStartAbsent(id) ==
    /\ pc = "idle"
    /\ runs < MaxRuns
    /\ id \notin DOMAIN backups
    /\ runs' = runs + 1
    /\ res' = [Res0 EXCEPT !.op = "restore", !.kind = "thrown", !.err = "notfound",
                           !.id = id]
    /\ h' = [H0 EXCEPT !.raised = "notfound"]
    /\ pc' = "done"
    /\ UNCHANGED <<dbVars, live, archives, auditLog, now, clientVars,
                   currentBackupId, recordNumberFieldCache, loc, edits>>
    /\ UNCHANGED <<sched, call>>

\* A variant of the filter that falls back to every record when the subset
\* matches none.
RecordsToRestoreOrAll(recs, sel) ==
    IF sel # {} /\ recs \cap sel # {} THEN recs \cap sel ELSE recs

\* A variant that ignores the subset.
RecordsToRestoreAll(recs, sel) == recs

\* records.filter(selectedRecordIds.includes(id)) when a subset is given.
RecordsToRestore(recs, sel) == IF sel # {} THEN recs \cap sel ELSE recs

\* extractBackupZip resolves; the subset is applied; the keys are collected.
RExtract ==
    /\ pc = "r_extract"
    /\ loc.row.file_path \in DOMAIN archives
    /\ LET recs == RecordsToRestore(DOMAIN archives[loc.row.file_path].recs, loc.selected)
       IN IF recs = {}
          THEN /\ loc' = [loc EXCEPT !.err = "norecords"]
               /\ h' = [h EXCEPT !.raised = "norecords", !.sel = loc.selected,
                                 !.archived = DOMAIN archives[loc.row.file_path].recs]
               /\ pc' = "r_catch"
          ELSE /\ loc' = [loc EXCEPT !.records = [r \in recs |->
                                         archives[loc.row.file_path].recs[r]]]
               /\ h' = [h EXCEPT !.sel = loc.selected,
                                 !.archived = DOMAIN archives[loc.row.file_path].recs]
               /\ pc' = "r_map"
    /\ UNCHANGED <<live, auditLog, clientVars, recordNumberFieldCache, res, rFrame>>
    /\ UNCHANGED <<sched, call>>

\* path.join(archivesDir, null) throws, or the archive cannot be read.
RExtractFail ==
    /\ pc = "r_extract"
    /\ IF loc.row.file_path \in DOMAIN archives THEN Fault(0) ELSE UNCHANGED clientVars
    /\ loc' = [loc EXCEPT !.err = "extract"]
    /\ h' = [h EXCEPT !.raised = "extract"]
    /\ pc' = "r_catch"
    /\ UNCHANGED <<live, auditLog, recordNumberFieldCache, res, rFrame>>
    /\ UNCHANGED <<sched, call>>

\* A variant of the key resolution that takes every key as resolved when
\* the lookup failed.
ResolvedOrAll(a, keys, ok) == IF ok THEN {r \in keys : Exists(a, r)} ELSE keys

\* The keys findRecordIdsByRecordNumbers maps to a live id: those of records
\* present in the app, none when the lookup failed (caught).
Resolved(a, keys, ok) == IF ok THEN {r \in keys : Exists(a, r)} ELSE {}

\* A variant of the partition loop that also adds the records it updates.
PartitionAddAll(recs, mapped) == [updates |-> recs \cap mapped, adds |-> recs]

\* for each record: mappedId ? updates.push : adds.push
Partition(recs, mapped) == [updates |-> recs \cap mapped, adds |-> recs \ mapped]

AfterMap(updates, adds) ==
    IF updates # {} THEN "r_update" ELSE IF adds # {} THEN "r_add" ELSE "r_audit"

\* findRecordIdsByRecordNumbers: the record-number field is looked up unless
\* cached (fieldOk), then one query maps the keys of live records (queryOk);
\* either failure is caught inside and leaves the keys unresolved.
RMap ==
    /\ pc = "r_map"
    /\ \E fieldOk \in BOOLEAN, queryOk \in BOOLEAN :
         LET a      == loc.appId
             e      == (IF fieldOk THEN 0 ELSE 1) + (IF queryOk THEN 0 ELSE 1)
             cached == a \in recordNumberFieldCache
             known  == cached \/ fieldOk
             asked  == (IF cached THEN 0 ELSE 1) + (IF known THEN 1 ELSE 0)
             found  == Resolved(a, DOMAIN loc.records, known /\ queryOk)
             part   == Partition(DOMAIN loc.records, found)
         IN /\ cached => fieldOk
            /\ ~known => queryOk
            /\ Count(asked, e)
            /\ recordNumberFieldCache' =
                 IF known THEN recordNumberFieldCache \cup {a} ELSE recordNumberFieldCache
            /\ loc' = [loc EXCEPT !.updates = part.updates, !.adds = part.adds]
            /\ pc' = AfterMap(part.updates, part.adds)
            /\ h' = [Called(asked, e) EXCEPT
                        !.resolved = {r \in DOMAIN loc.records :
                                         known /\ queryOk /\ live[a][r].rev > 0},
                        !.mapFailed = ~(known /\ queryOk),
                        !.updates = part.updates, !.adds = part.adds]
    /\ UNCHANGED <<live, auditLog, res, rFrame>>
    /\ UNCHANGED <<sched, call>>

\* updateAllRecords resolves: the live records are overwritten.
RUpdate ==
    /\ pc = "r_update"
    /\ \E e \in 0..MaxErr :
          /\ Count(1, e)
          /\ h' = [Called(1, e) EXCEPT !.sentUpd = loc.updates, !.triedUpd = TRUE]
    /\ live' = [live EXCEPT ![loc.appId] =
                 [r \in RecIds |-> IF r \in loc.updates
                                   THEN [upd |-> now, rev |-> @[r].rev + 1] ELSE @[r]]]
    /\ loc' = [loc EXCEPT !.updatedCount = Cardinality(loc.updates)]
    /\ pc' = AfterMap({}, loc.adds)
    /\ UNCHANGED <<auditLog, recordNumberFieldCache, res, rFrame>>
    /\ UNCHANGED <<sched, call>>

\* A variant in which a failed update ends the attempts: the add set is skipped.
RUpdateFailSkipAdd ==
    /\ pc = "r_update"
    /\ Count(1, 1)
    /\ h' = [Called(1, 1) EXCEPT !.sentUpd = loc.updates, !.triedUpd = TRUE]
    /\ loc' = [loc EXCEPT !.updateFailed = TRUE]
    /\ pc' = "r_audit"
    /\ UNCHANGED <<live, auditLog, recordNumberFieldCache, res, rFrame>>
    /\ UNCHANGED <<sched, call>>

\* updateAllRecords rejects: caught, updateFailed is set.
RUpdateFail ==
    /\ pc = "r_update"
    /\ Count(1, 1)
    /\ h' = [Called(1, 1) EXCEPT !.sentUpd = loc.updates, !.triedUpd = TRUE]
    /\ loc' = [loc EXCEPT !.updateFailed = TRUE]
    /\ pc' = AfterMap({}, loc.adds)
    /\ UNCHANGED <<live, auditLog, recordNumberFieldCache, res, rFrame>>
    /\ UNCHANGED <<sched, call>>

\* addAllRecords resolves: the records are created in the live app.
RAdd ==
    /\ pc = "r_add"
    /\ \E e \in 0..MaxErr :
          /\ Count(1, e)
          /\ h' = [Called(1, e) EXCEPT !.sentAdd = loc.adds, !.triedAdd = TRUE]
    /\ live' = [live EXCEPT ![loc.appId] =
                 [r \in RecIds |-> IF r \in loc.adds /\ @[r].rev = 0
                                   THEN [upd |-> now, rev |-> 1] ELSE @[r]]]
    /\ loc' = [loc EXCEPT !.addedCount = Cardinality(loc.adds)]
    /\ pc' = "r_audit"
    /\ UNCHANGED <<auditLog, recordNumberFieldCache, res, rFrame>>
    /\ UNCHANGED <<sched, call>>

\* addAllRecords rejects: caught, addFailed is set.
RAddFail ==
    /\ pc = "r_add"
    /\ Count(1, 1)
    /\ h' = [Called(1, 1) EXCEPT !.sentAdd = loc.adds, !.triedAdd = TRUE]
    /\ loc' = [loc EXCEPT !.addFailed = TRUE]
    /\ pc' = "r_audit"
    /\ UNCHANGED <<live, auditLog, recordNumberFieldCache, res, rFrame>>
    /\ UNCHANGED <<sched, call>>

\* The status restoreBackup derives from the two partitions.
RestoreStatus(updateFailed, addFailed, addedCount, updatedCount) ==
    IF (updateFailed \/ addFailed) /\ (addedCount > 0 \/ updatedCount > 0)
    THEN "partial_success"
    ELSE IF updateFailed /\ addFailed THEN "failure" ELSE "success"

LocStatus == RestoreStatus(loc.updateFailed, loc.addFailed, loc.addedCount, loc.updatedCount)

\* A variant whose remarks name neither the backup run nor the counts.
RestoreEntryNoRemarks ==
    [backup_type |-> "restore", target_app_id |-> loc.appId,
     record_count |-> Cardinality(DOMAIN loc.records), status |-> LocStatus,
     file_path |-> loc.row.file_path, added |-> 0, updated |-> 0, ref |-> 0]

\* The entry restoreBackup hands to logToKintoneBackupApp; remarks carry the
\* backup id and the two counts.
RestoreEntry ==
    [backup_type |-> "restore", target_app_id |-> loc.appId,
     record_count |-> Cardinality(DOMAIN loc.records), status |-> LocStatus,
     file_path |-> loc.row.file_path, added |-> loc.addedCount,
     updated |-> loc.updatedCount, ref |-> loc.backupId]

RAuditSkip ==
    /\ pc = "r_audit"
    /\ AuditSkip("r_ret", RestoreEntry)
    /\ UNCHANGED <<live, recordNumberFieldCache, loc, res, rFrame>>
    /\ UNCHANGED <<sched, call>>

RAuditOk ==
    /\ pc = "r_audit"
    /\ AuditOk("r_ret", RestoreEntry)
    /\ UNCHANGED <<live, recordNumberFieldCache, loc, res, rFrame>>
    /\ UNCHANGED <<sched, call>>

RAuditFail ==
    /\ pc = "r_audit"
    /\ AuditFail("r_ret", RestoreEntry)
    /\ UNCHANGED <<live, recordNumberFieldCache, loc, res, rFrame>>
    /\ UNCHANGED <<sched, call>>

RestoreResult ==
    [Res0 EXCEPT !.op = "restore", !.kind = "returned",
                 !.success = (LocStatus \in {"success", "partial_success"}),
                 !.recordCount = Cardinality(DOMAIN loc.records),
                 !.id = loc.backupId, !.appId = loc.appId, !.status = LocStatus]

\* A variant that writes the derived status into the restored run.
RReturnStoresStatus ==
    /\ pc = "r_ret"
    /\ Finish(RestoreResult)
    /\ backups' = updateBackup(backups, loc.backupId, [status |-> LocStatus])
    /\ UNCHANGED <<nextId, apps, record_index, archives, now, currentBackupId,
                   runs, edits, live, auditLog, recordNumberFieldCache, h>>
    /\ UNCHANGED <<sched, call>>

\* logRestoreSuccess; return; finally.
RReturn ==
    /\ pc = "r_ret"
    /\ Finish(RestoreResult)
    /\ UNCHANGED <<live, auditLog, recordNumberFieldCache, h, rFrame>>
    /\ UNCHANGED <<sched, call>>

\* catch: logRestoreFailure, rethrow; finally.
RCatch ==
    /\ pc = "r_catch"
    /\ Finish([Thrown EXCEPT !.id = loc.backupId])
    /\ UNCHANGED <<live, auditLog, recordNumberFieldCache, h, rFrame>>
    /\ UNCHANGED <<sched, call>>

\* The caller (an IPC handler, the scheduled loop) takes the outcome.
Resume ==
    /\ pc = "done"
    /\ pc' = "idle"
    /\ res' = Res0
    /\ h' = H0
    /\ UNCHANGED <<dbVars, live, archives, auditLog, now, clientVars,
                   currentBackupId, recordNumberFieldCache, loc, runs, edits>>
    /\ UNCHANGED <<sched, call>>

\* ------------------------------------------------------ runScheduledBackup
\* getAllApps(true): the rows with is_active = 1.
ActiveApps(tbl) == {a \in DOMAIN tbl : tbl[a].is_active}

\* The orders ORDER BY app_name can give the rows (names are not modelled).
Orders(S) ==
    {o \in [1..Cardinality(S) -> S] : \A i, j \in DOMAIN o : i # j => o[i] # o[j]}

schedFrame == <<dbVars, live, archives, auditLog, now, clientVars, currentBackupId,
                recordNumberFieldCache, loc, runs, edits>>

\* runScheduledBackup, entry: results = [], apps = getAllApps(true).
SchedStart ==
    /\ pc = "idle"
    /\ sched.job = "none"
    /\ runs = 0
    /\ \E o \in Orders(ActiveApps(apps)) :
          sched' = [job |-> "scheduled", order |-> o, next |-> 1, results |-> <<>>]
    /\ UNCHANGED <<schedFrame, pc, res, h, call>>

\* The loop body: await backupApp(app.app_id, differential, scheduled).
SchedBackup ==
    /\ sched.job = "scheduled"
    /\ sched.next <= Len(sched.order)
    /\ \/ BStart(sched.order[sched.next], "differential")
       \/ BStartFail(sched.order[sched.next], "differential")

\* An entry of the results list for an invocation that threw.
FailedEntry(a, err) == [appId |-> a, success |-> FALSE, recordCount |-> NULL, error |-> err]

\* A variant of the loop that takes the same app again after a success.
SchedPushSameApp ==
    /\ sched.job = "scheduled"
    /\ pc = "done"
    /\ res.kind = "returned"
    /\ sched' = [sched EXCEPT
                   !.results = Append(@, [appId |-> res.appId, success |-> res.success,
                                          recordCount |-> res.recordCount,
                                          error |-> NoErr])]
    /\ pc' = "idle"
    /\ res' = Res0
    /\ h' = H0
    /\ UNCHANGED <<schedFrame, call>>

\* backupApp returned: results.push(result); next app.
SchedPush ==
    /\ sched.job = "scheduled"
    /\ pc = "done"
    /\ res.kind = "returned"
    /\ sched' = [sched EXCEPT
                   !.results = Append(@, [appId |-> res.appId, success |-> res.success,
                                          recordCount |-> res.recordCount,
                                          error |-> NoErr]),
                   !.next = @ + 1]
    /\ pc' = "idle"
    /\ res' = Res0
    /\ h' = H0
    /\ UNCHANGED <<schedFrame, call>>

\* A variant of the loop's catch that stops the loop after the failed app.
SchedCatchStop ==
    /\ sched.job = "scheduled"
    /\ pc = "done"
    /\ res.kind = "thrown"
    /\ sched' = [sched EXCEPT
                   !.results = Append(@, FailedEntry(sched.order[sched.next], res.err)),
                   !.next = Len(sched.order) + 1]
    /\ pc' = "idle"
    /\ res' = Res0
    /\ h' = H0
    /\ UNCHANGED <<schedFrame, call>>

\* backupApp threw: the loop's catch logs it, pushes a failed entry; next app.
SchedCatch ==
    /\ sched.job = "scheduled"
    /\ pc = "done"
    /\ res.kind = "thrown"
    /\ sched' = [sched EXCEPT
                   !.results = Append(@, FailedEntry(sched.order[sched.next], res.err)),
                   !.next = @ + 1]
    /\ pc' = "idle"
    /\ res' = Res0
    /\ h' = H0
    /\ UNCHANGED <<schedFrame, call>>

\* return results
SchedReturn ==
    /\ sched.job = "scheduled"
    /\ pc = "idle"
    /\ sched.next > Len(sched.order)
    /\ sched' = [sched EXCEPT !.job = "returned"]
    /\ UNCHANGED <<schedFrame, pc, res, h, call>>

\* ------------------------------------------------------------ specification
Next ==
    \/ Tick
    \/ \E a \in Apps, r \in RecIds : EditRecord(a, r)
    \/ \E a \in Apps, r \in RecIds : RemoveRecord(a, r)
    \/ \E a \in Apps : UpsertApp(a, TRUE)
    \/ \E id \in 1..MaxRuns : DeleteBackup(id) /\ UNCHANGED call
    \/ \E id \in 1..MaxRuns : DeleteBackupFault(id)
    \/ \E a \in Apps, k \in Kinds : BStart(a, k)
    \/ \E a \in Apps, k \in Kinds : BStartFail(a, k)
    \/ BGetApp
    \/ BRemoteFail
    \/ BSetName
    \/ BFetch
    \/ BBranch
    \/ BEmptyFinal
    \/ BZip
    \/ BZipFail
    \/ BDownload
    \/ BDownloadFail
    \/ BDownloaded
    \/ BMarker
    \/ BFinal
    \/ BLast
    \/ BDbFault
    \/ BCatch
    \/ BCatchFail
    \/ BAuditSkip
    \/ BAuditOk
    \/ BAuditFail
    \/ BReturn
    \/ \E id \in 1..MaxRuns, sel \in SUBSET RecIds : RStart(id, sel)
    \/ \E id \in 1..MaxRuns : RStartAbsent(id)
    \/ RExtract
    \/ RExtractFail
    \/ RMap
    \/ RUpdate
    \/ RUpdateFail
    \/ RAdd
    \/ RAddFail
    \/ RAuditSkip
    \/ RAuditOk
    \/ RAuditFail
    \/ RReturn
    \/ RCatch
    \/ Resume

Spec == Init /\ [][Next]_vars

\* ------------------------------------------ the delete-backup handler: one call
\* What the handler answers to the renderer.
DeleteAnswer(id, out) ==
    call' = [fn |-> "delete-backup", arg |-> id, out |-> out, done |-> TRUE]

\* delete-backup on a run without file_path: path.join(ARCHIVES_DIR, null)
\* throws a TypeError before anything is removed; the handler rethrows.
DeleteBackupNoFile(id) ==
    /\ pc = "idle"
    /\ call.fn = "none"
    /\ id \in DOMAIN backups
    /\ backups[id].file_path = NoFile
    /\ DeleteAnswer(id, "rejected")
    /\ UNCHANGED <<dbVars, live, archives, auditLog, now, clientVars, currentBackupId,
                   recordNumberFieldCache, pc, loc, res, runs, edits, h, sched>>

\* Backups fill the store, then one delete-backup call is answered.
NextDelete ==
    \/ \E a \in Apps, k \in Kinds : BStart(a, k)
    \/ BGetApp
    \/ BRemoteFail
    \/ BSetName
    \/ BFetch
    \/ BBranch
    \/ BEmptyFinal
    \/ BZip
    \/ BZipFail
    \/ BDownload
    \/ BDownloadFail
    \/ BDownloaded
    \/ BMarker
    \/ BFinal
    \/ BLast
    \/ BDbFault
    \/ BCatch
    \/ BCatchFail
    \/ BAuditSkip
    \/ BAuditOk
    \/ BAuditFail
    \/ BReturn
    \/ Resume
    \/ \E id \in 1..MaxRuns :
          call.fn = "none" /\ DeleteBackup(id) /\ DeleteAnswer(id, "resolved")
    \/ \E id \in 1..MaxRuns : DeleteBackupNoFile(id)

SpecDelete == Init /\ [][NextDelete]_vars

\* The scheduled (headless) run: the apps table is filled first, then
\* runScheduledBackup works through it while records are edited.
NextSched ==
    \/ sched.job = "none" /\ \E a \in Apps, active \in BOOLEAN : UpsertApp(a, active)
    \/ Tick
    \/ \E a \in Apps, r \in RecIds : EditRecord(a, r)
    \/ SchedStart
    \/ SchedBackup
    \/ BGetApp
    \/ BRemoteFail
    \/ BSetName
    \/ BFetch
    \/ BBranch
    \/ BEmptyFinal
    \/ BZip
    \/ BZipFail
    \/ BDownload
    \/ BDownloadFail
    \/ BDownloaded
    \/ BMarker
    \/ BFinal
    \/ BLast
    \/ BDbFault
    \/ BCatch
    \/ BCatchFail
    \/ BAuditSkip
    \/ BAuditOk
    \/ BAuditFail
    \/ BReturn
    \/ SchedPush
    \/ SchedCatch
    \/ SchedReturn

SpecSched == Init /\ [][NextSched]_vars

\* The steps of a runScheduledBackup that has been called: the statements of
\* the loop and of backupApp, every remote call answered or failed.
SchedSteps ==
    \/ SchedBackup
    \/ BGetApp
    \/ BRemoteFail
    \/ BSetName
    \/ BFetch
    \/ BBranch
    \/ BEmptyFinal
    \/ BZip
    \/ BZipFail
    \/ BDownload
    \/ BDownloadFail
    \/ BDownloaded
    \/ BMarker
    \/ BFinal
    \/ BLast
    \/ BDbFault
    \/ BCatch
    \/ BCatchFail
    \/ BAuditSkip
    \/ BAuditOk
    \/ BAuditFail
    \/ BReturn
    \/ SchedPush
    \/ SchedCatch
    \/ SchedReturn

\* The scheduled run when the event loop keeps running the continuation that
\* is ready and every remote call is answered or fails after its bounded
\* retries: a step of the run that stays possible is eventually taken.
SpecSchedLive == Init /\ [][NextSched]_vars /\ WF_vars(SchedSteps)

\* ------------------------------------------- headless scheduled mode (main)
\* The configuration file: "missing" stands for !config || !config.kintone
\* || !config.apps.
Configs == {"ok", "missing"}

Main0 == [fn : {"main"}, config : Configs, stage : {"start"}, exit : {NULL},
          error : {NoErr}]

InitHeadless == Start /\ call \in Main0

\* process.exit(code), after console.error(error) when there is one
Exit(code, error) ==
    call' = [call EXCEPT !.stage = "exited", !.exit = code, !.error = error]

mainFrame == <<dbVars, live, archives, auditLog, now, clientVars, currentBackupId,
               recordNumberFieldCache, pc, loc, res, runs, edits, h, sched>>

\* initializeDirectories, new Database or ensureDir(logDir) throws: the catch
\* block logs and exits 1.
MainStartupFail ==
    /\ call.fn = "main"
    /\ call.stage = "start"
    /\ Exit(1, "startup")
    /\ UNCHANGED mainFrame

\* The configuration is missing: exit 1 before the database is opened.
MainNoConfig ==
    /\ call.fn = "main"
    /\ call.stage = "start"
    /\ call.config = "missing"
    /\ Exit(1, "config")
    /\ UNCHANGED mainFrame

\* The database is opened and the BackupManager constructed;
\* backupManager.runScheduledBackup() is awaited.
MainRun ==
    /\ call.fn = "main"
    /\ call.stage = "start"
    /\ call.config = "ok"
    /\ call' = [call EXCEPT !.stage = "run"]
    /\ UNCHANGED mainFrame

\* getAllApps throws in runScheduledBackup (outside its loop): the promise
\* rejects and the catch block of main exits 1.
MainGetAppsFail ==
    /\ call.fn = "main"
    /\ call.stage = "run"
    /\ sched.job = "none"
    /\ Exit(1, "getAllApps")
    /\ UNCHANGED mainFrame

\* A variant that derives the exit code from the results.
MainExitByResults ==
    /\ call.fn = "main"
    /\ call.stage = "run"
    /\ sched.job = "returned"
    /\ Exit(IF \E i \in DOMAIN sched.results : ~sched.results[i].success THEN 1 ELSE 0,
            NoErr)
    /\ UNCHANGED mainFrame

\* runScheduledBackup has returned its results: process.exit(0).
MainExit ==
    /\ call.fn = "main"
    /\ call.stage = "run"
    /\ sched.job = "returned"
    /\ Exit(0, NoErr)
    /\ UNCHANGED mainFrame

NextHeadless ==
    \/ call.stage = "start" /\ \E a \in Apps, active \in BOOLEAN : UpsertApp(a, active)
    \/ MainStartupFail
    \/ MainNoConfig
    \/ MainRun
    \/ MainGetAppsFail
    \/ call.stage = "run" /\ SchedStart
    \/ SchedBackup
    \/ BGetApp
    \/ BRemoteFail
    \/ BSetName
    \/ BFetch
    \/ BBranch
    \/ BEmptyFinal
    \/ BZip
    \/ BZipFail
    \/ BDownload
    \/ BDownloadFail
    \/ BDownloaded
    \/ BMarker
    \/ BFinal
    \/ BLast
    \/ BDbFault
    \/ BCatch
    \/ BCatchFail
    \/ BAuditSkip
    \/ BAuditOk
    \/ BAuditFail
    \/ BReturn
    \/ SchedPush
    \/ SchedCatch
    \/ SchedReturn
    \/ MainExit

SpecHeadless == InitHeadless /\ [][NextHeadless]_vars

\* ---------------------------------------------------- cleanRecordForRestore
\* Field codes and field types that are skipped.
SYSTEM_FIELDS ==
    {"RECORD_NUMBER", "__ID__", "__REVISION__", "CREATOR", "CREATED_TIME",
     "MODIFIER", "UPDATED_TIME", "STATUS", "STATUS_ASSIGNEE", "$id", "$revision"}

READONLY_FIELD_TYPES ==
    {"RECORD_NUMBER", "CREATOR", "CREATED_TIME", "MODIFIER", "UPDATED_TIME",
     "STATUS", "STATUS_ASSIGNEE", "__ID__", "__REVISION__", "CALC", "CATEGORY"}

\* A field value without a type property.
NoType == "none"

\* Archived records as the service returns them: field code -> [type, cells],
\* cells being the types of the fields in the rows of a SUBTABLE.
FieldCodes == {"$id", "no", "body"}

FieldValues ==
    [type : READONLY_FIELD_TYPES \cup {"SINGLE_LINE_TEXT", NoType}, cells : {{}}]
    \cup [type : {"SUBTABLE"}, cells : SUBSET {"CALC", "NUMBER"}]

ArchivedRecords == UNION {[S -> FieldValues] : S \in SUBSET FieldCodes}

\* cleanRecordForRestore: the entries of the record whose code is not in
\* SYSTEM_FIELDS and whose own type is not in READONLY_FIELD_TYPES.
cleanRecordForRestore(record) ==
    [f \in {c \in DOMAIN record :
               /\ c \notin SYSTEM_FIELDS
               /\ ~(record[c].type # NoType /\ record[c].type \in READONLY_FIELD_TYPES)}
       |-> record[f]]

InitClean ==
    /\ Start
    /\ call \in [fn : {"cleanRecordForRestore"}, arg : ArchivedRecords,
                  out : {<<>>}, done : {FALSE}]

\* recordsToRestore.map((record) => this.cleanRecordForRestore(record))
CleanRecord ==
    /\ call.fn = "cleanRecordForRestore"
    /\ ~call.done
    /\ call' = [call EXCEPT !.out = cleanRecordForRestore(call.arg), !.done = TRUE]
    /\ UNCHANGED <<dbVars, live, archives, auditLog, now, clientVars, currentBackupId,
                   recordNumberFieldCache, pc, loc, res, runs, edits, h, sched>>

NextClean == CleanRecord

SpecClean == InitClean /\ [][NextClean]_vars

\* ------------------------------------------------ setupAxiosRetry: one call
\* Everything a client method on its own leaves alone.
clientFrame == <<dbVars, live, archives, auditLog, now, currentBackupId, pc, loc,
                 res, runs, edits, errs, h, sched>>

RETRY_CONFIG ==
    [maxRetries |-> 5, initialDelay |-> 1000, maxDelay |-> 32000,
     backoffMultiplier |-> 2, retryableStatusCodes |-> {429, 500, 502, 503, 504}]

\* The errors an attempt can end with: status 0 is a network error (no
\* response); retryAfter is the Retry-After header in seconds, 0 when absent.
NoError == [status |-> -1, retryAfter |-> 0]

Errors ==
    [status : {0, 400, 401, 403, 500, 502, 503, 504}, retryAfter : {0}]
    \cup [status : {429}, retryAfter : {0, 3, 60}]

Methods == {"GET", "POST"}

\* Math.random(), in tenths.
RandomValues == 0..9

RECURSIVE Pow(_, _)
Pow(b, e) == IF e = 0 THEN 1 ELSE b * Pow(b, e - 1)

Min2(x, y) == IF x <= y THEN x ELSE y

\* A variant of retryDelay whose exponent is retryCount instead of retryCount - 1.
retryDelayFromTwo(retryNumber, random) ==
    LET delay == Min2(RETRY_CONFIG.initialDelay
                        * Pow(RETRY_CONFIG.backoffMultiplier, retryNumber),
                      RETRY_CONFIG.maxDelay)
    IN delay + (delay * 2 * (random * 2 - 10)) \div 100

\* retryDelay: min(initialDelay * multiplier^(retryCount-1), maxDelay), plus
\* delay * 0.2 * (random * 2 - 1).
retryDelay(retryNumber, random) ==
    LET delay == Min2(RETRY_CONFIG.initialDelay
                        * Pow(RETRY_CONFIG.backoffMultiplier, retryNumber - 1),
                      RETRY_CONFIG.maxDelay)
    IN delay + (delay * 2 * (random * 2 - 10)) \div 100

\* axiosRetry.isNetworkOrIdempotentRequestError: no response at all, or a 5xx
\* answer to an idempotent request.
isNetworkOrIdempotentRequestError(error, method) ==
    \/ error.status = 0
    \/ method = "GET" /\ error.status \in 500..599

\* A variant of retryCondition that retries whatever the error.
retryConditionAlways(error, method) == TRUE

\* retryCondition, its result (it also counts: see RequestFailed).
retryCondition(error, method) ==
    \/ error.status = 429 /\ error.retryAfter # 0
    \/ isNetworkOrIdempotentRequestError(error, method)
    \/ error.status > 0 /\ error.status \in RETRY_CONFIG.retryableStatusCodes

\* A client method that sends one request (getApp) and has not started.
Request0 ==
    [fn : {"getApp"}, method : Methods, sent : {0}, retried : {0},
     error : {NoError}, delay : {0}, before : {0}, random : {0},
     out : {"none"}, done : {FALSE}]

InitRetry == Start /\ call \in Request0

\* getApp: this.apiRequestCount++, then the request is sent.
RequestSend ==
    /\ call.fn = "getApp"
    /\ call.sent = 0
    /\ call' = [call EXCEPT !.sent = 1]
    /\ apiRequestCount' = apiRequestCount + 1
    /\ UNCHANGED <<clientFrame, retryCount, recordNumberFieldCache>>

\* The attempt in flight is answered.
RequestOk ==
    /\ call.fn = "getApp"
    /\ call.sent > 0
    /\ ~call.done
    /\ call' = [call EXCEPT !.out = "resolved", !.done = TRUE]
    /\ UNCHANGED <<clientFrame, apiRequestCount, retryCount, recordNumberFieldCache>>

\* The attempt in flight fails with error.  axios-retry consults the options:
\* while fewer than `retries` retries were made it calls retryCondition, which
\* counts; on true it waits retryDelay(number of this retry) and sends the
\* request again; otherwise the error is passed to the caller.
RequestFailed(error, random) ==
    /\ call.fn = "getApp"
    /\ call.sent > 0
    /\ ~call.done
    /\ IF call.retried < RETRY_CONFIG.maxRetries
       THEN /\ retryCount' = retryCount + 1
            /\ IF retryCondition(error, call.method)
               THEN call' = [call EXCEPT !.error = error,
                                         !.retried = @ + 1, !.sent = @ + 1,
                                         !.before = call.delay, !.random = random,
                                         !.delay = retryDelay(call.retried + 1, random)]
               ELSE call' = [call EXCEPT !.error = error, !.random = 0,
                                         !.out = "rejected", !.done = TRUE]
       ELSE /\ retryCount' = retryCount
            /\ call' = [call EXCEPT !.error = error, !.random = 0,
                                    !.out = "rejected", !.done = TRUE]
    /\ UNCHANGED <<clientFrame, apiRequestCount, recordNumberFieldCache>>

NextRetry ==
    \/ RequestSend
    \/ RequestOk
    \/ \E error \in Errors, random \in RandomValues : RequestFailed(error, random)

SpecRetry == InitRetry /\ [][NextRetry]_vars

\* -------------------------------------------------- getAllRecords: one call
\* A call for an app (or a condition) that n records match.
InitRecords ==
    /\ Start
    /\ call \in [fn : {"getAllRecords"}, arg : 0..MaxRecords, sent : {FALSE},
                 pages : {0}, out : {"none"}, done : {FALSE}]

\* this.apiRequestCount++; the records are awaited.
GetAllRecordsSend ==
    /\ call.fn = "getAllRecords"
    /\ ~call.sent
    /\ call' = [call EXCEPT !.sent = TRUE]
    /\ apiRequestCount' = apiRequestCount + 1
    /\ UNCHANGED <<clientFrame, retryCount, recordNumberFieldCache>>

\* The service has answered every page; estimatedRequests - 1 is added.
GetAllRecordsOk ==
    /\ call.fn = "getAllRecords"
    /\ call.sent
    /\ ~call.done
    /\ call' = [call EXCEPT !.pages = Pages(call.arg), !.out = "resolved", !.done = TRUE]
    /\ apiRequestCount' = apiRequestCount + (RecordsRequests(call.arg) - 1)
    /\ UNCHANGED <<clientFrame, retryCount, recordNumberFieldCache>>

\* The request of page p fails: the catch block logs and rethrows.
GetAllRecordsFail(p) ==
    /\ call.fn = "getAllRecords"
    /\ call.sent
    /\ ~call.done
    /\ p \in 1..Pages(call.arg)
    /\ call' = [call EXCEPT !.pages = p, !.out = "rejected", !.done = TRUE]
    /\ UNCHANGED <<clientFrame, apiRequestCount, retryCount, recordNumberFieldCache>>

NextRecords ==
    \/ GetAllRecordsSend
    \/ GetAllRecordsOk
    \/ \E p \in 1..Pages(MaxRecords) : GetAllRecordsFail(p)

SpecRecords == InitRecords /\ [][NextRecords]_vars

\* -------------------------------------- addRecords / updateRecords: one call
\* The records given are 1..n in this order; restoreBackup calls with a
\* non-empty list only.
Records(n) == [k \in 1..n |-> k]

InitBatch ==
    /\ Start
    /\ call \in [fn : {"addRecords", "updateRecords"},
                 arg : {Records(n) : n \in 1..MaxBatchRecords},
                 i : {-1}, batches : {<<>>}, waiting : {FALSE},
                 out : {"none"}, done : {FALSE}, applied : {0}, count : {NULL}]

\* this.apiRequestCount++ and the loop starts at i = 0.
BatchEnter ==
    /\ call.fn \in {"addRecords", "updateRecords"}
    /\ call.i = -1
    /\ call' = [call EXCEPT !.i = 0]
    /\ apiRequestCount' = apiRequestCount + 1
    /\ UNCHANGED <<clientFrame, retryCount, recordNumberFieldCache>>

\* A variant of the slice that takes one record more.
sliceInclusive(records, from, to) ==
    SubSeq(records, from + 1, Min2(to + 1, Len(records)))

\* records.slice(from, to)
slice(records, from, to) == SubSeq(records, from + 1, Min2(to, Len(records)))

\* i < records.length: the batch records.slice(i, i + batchSize) is sent.
BatchSend ==
    /\ call.fn \in {"addRecords", "updateRecords"}
    /\ call.i >= 0
    /\ ~call.waiting
    /\ ~call.done
    /\ call.i < Len(call.arg)
    /\ call' = [call EXCEPT !.waiting = TRUE,
                            !.batches = Append(@, slice(call.arg, call.i, call.i + batchSize))]
    /\ UNCHANGED <<clientFrame, apiRequestCount, retryCount, recordNumberFieldCache>>

\* The batch is accepted (the service has added or updated its records);
\* if (i + batchSize < records.length) apiRequestCount++; i += batchSize.
BatchOk ==
    /\ call.fn \in {"addRecords", "updateRecords"}
    /\ call.waiting
    /\ call' = [call EXCEPT !.waiting = FALSE, !.i = @ + batchSize,
                            !.applied = @ + Len(call.batches[Len(call.batches)])]
    /\ apiRequestCount' = apiRequestCount
                            + (IF call.i + batchSize < Len(call.arg) THEN 1 ELSE 0)
    /\ UNCHANGED <<clientFrame, retryCount, recordNumberFieldCache>>

\* The batch is refused: the catch block logs and rethrows.
BatchFail ==
    /\ call.fn \in {"addRecords", "updateRecords"}
    /\ call.waiting
    /\ call' = [call EXCEPT !.waiting = FALSE, !.out = "rejected", !.done = TRUE]
    /\ UNCHANGED <<clientFrame, apiRequestCount, retryCount, recordNumberFieldCache>>

\* The loop ends: return results / true.
BatchReturn ==
    /\ call.fn \in {"addRecords", "updateRecords"}
    /\ call.i >= Len(call.arg)
    /\ ~call.waiting
    /\ ~call.done
    /\ call' = [call EXCEPT !.out = "resolved", !.done = TRUE]
    /\ UNCHANGED <<clientFrame, apiRequestCount, retryCount, recordNumberFieldCache>>

\* restoreBackup, after updateAllRecords / addAllRecords: updatedCount =
\* updates.length, addedCount = res.length (the ids of every batch) when the
\* call resolved; the count stays 0 when it rejected.
restoreCount(fn, out, given, applied) ==
    IF out = "resolved"
    THEN (IF fn = "addRecords" THEN applied ELSE given)
    ELSE 0

\* restoreBackup takes the outcome of the call.
BatchCount ==
    /\ call.fn \in {"addRecords", "updateRecords"}
    /\ call.done
    /\ call.count = NULL
    /\ call' = [call EXCEPT !.count = restoreCount(call.fn, call.out, Len(call.arg),
                                                    call.applied)]
    /\ UNCHANGED <<clientFrame, apiRequestCount, retryCount, recordNumberFieldCache>>

NextBatch ==
    \/ BatchEnter
    \/ BatchSend
    \/ BatchOk
    \/ BatchFail
    \/ BatchReturn
    \/ BatchCount

SpecBatch == InitBatch /\ [][NextBatch]_vars

\* ------------------------------------ findRecordIdsByRecordNumbers: one call
\* The keys given are 1..n (restoreBackup gives distinct keys, at least one);
\* found is the set of keys for which the app holds a live record.
LiveKeySets(n) == {{}, 1..n, {k \in 1..n : k % 2 = 0}}

\* The identifier ($id) of the live record whose record number is k.
IdOf(k) == 100 + k

InitFind ==
    /\ Start
    /\ \E n \in 1..MaxKeys : \E F \in LiveKeySets(n) :
          call = [fn |-> "findRecordIdsByRecordNumbers", app |-> 1,
                  arg |-> Records(n), found |-> F, resultMap |-> <<>>,
                  fieldCode |-> FALSE, i |-> -1, chunks |-> <<>>, failed |-> {},
                  out |-> "none", done |-> FALSE]

\* resultMap[String(rn)] = null for every key; getRecordNumberFieldCode finds
\* the field code (from the cache, or by getFormFields, which counts a request).
FindFieldCode ==
    /\ call.fn = "findRecordIdsByRecordNumbers"
    /\ call.i = -1
    /\ ~call.done
    /\ call' = [call EXCEPT !.resultMap = [k \in {call.arg[x] : x \in DOMAIN call.arg} |-> NULL],
                            !.fieldCode = TRUE, !.i = 0]
    /\ apiRequestCount' = apiRequestCount + (IF call.app \in recordNumberFieldCache THEN 0 ELSE 1)
    /\ recordNumberFieldCache' = recordNumberFieldCache \cup {call.app}
    /\ UNCHANGED <<clientFrame, retryCount>>

\* getFormFields fails: getRecordNumberFieldCode returns null and the map is
\* returned as it is.
FindNoFieldCode ==
    /\ call.fn = "findRecordIdsByRecordNumbers"
    /\ call.i = -1
    /\ ~call.done
    /\ call.app \notin recordNumberFieldCache
    /\ call' = [call EXCEPT !.resultMap = [k \in {call.arg[x] : x \in DOMAIN call.arg} |-> NULL],
                            !.out = "resolved", !.done = TRUE]
    /\ apiRequestCount' = apiRequestCount + 1
    /\ UNCHANGED <<clientFrame, retryCount, recordNumberFieldCache>>

\* The records the service returns for  fieldCode in (chunk): one per key of
\* the chunk that a live record carries; each sets resultMap[key] = id.
Answered(map, chunk, found) ==
    [k \in DOMAIN map |->
        IF k \in found /\ \E x \in DOMAIN chunk : chunk[x] = k THEN IdOf(k) ELSE map[k]]

\* One chunk of the loop, its query answered.
FindChunk ==
    /\ call.fn = "findRecordIdsByRecordNumbers"
    /\ call.i >= 0
    /\ call.i < Len(call.arg)
    /\ ~call.done
    /\ LET chunk == slice(call.arg, call.i, call.i + keyBatchSize)
       IN call' = [call EXCEPT !.chunks = Append(@, chunk),
                               !.resultMap = Answered(@, chunk, call.found),
                               !.i = @ + keyBatchSize]
    /\ apiRequestCount' = apiRequestCount + 1
    /\ UNCHANGED <<clientFrame, retryCount, recordNumberFieldCache>>

\* A variant in which the failure of a query leaves the function.
FindChunkFailThrows ==
    /\ call.fn = "findRecordIdsByRecordNumbers"
    /\ call.i >= 0
    /\ call.i < Len(call.arg)
    /\ ~call.done
    /\ LET chunk == slice(call.arg, call.i, call.i + keyBatchSize)
       IN call' = [call EXCEPT !.chunks = Append(@, chunk),
                               !.failed = @ \cup {chunk[x] : x \in DOMAIN chunk},
                               !.out = "rejected", !.done = TRUE]
    /\ apiRequestCount' = apiRequestCount + 1
    /\ UNCHANGED <<clientFrame, retryCount, recordNumberFieldCache>>

\* One chunk of the loop, its query failing: the inner catch logs it.
FindChunkFail ==
    /\ call.fn = "findRecordIdsByRecordNumbers"
    /\ call.i >= 0
    /\ call.i < Len(call.arg)
    /\ ~call.done
    /\ LET chunk == slice(call.arg, call.i, call.i + keyBatchSize)
       IN call' = [call EXCEPT !.chunks = Append(@, chunk),
                               !.failed = @ \cup {chunk[x] : x \in DOMAIN chunk},
                               !.i = @ + keyBatchSize]
    /\ apiRequestCount' = apiRequestCount + 1
    /\ UNCHANGED <<clientFrame, retryCount, recordNumberFieldCache>>

\* return resultMap
FindReturn ==
    /\ call.fn = "findRecordIdsByRecordNumbers"
    /\ call.i >= Len(call.arg)
    /\ ~call.done
    /\ call' = [call EXCEPT !.out = "resolved", !.done = TRUE]
    /\ UNCHANGED <<clientFrame, apiRequestCount, retryCount, recordNumberFieldCache>>

NextFind == FindFieldCode \/ FindNoFieldCode \/ FindChunk \/ FindChunkFail \/ FindReturn

SpecFind == InitFind /\ [][NextFind]_vars

\* ------------------------------- createBackupZip / extractBackupZip: one file
\* A record is its text, a sequence of characters: "a" is a character of one
\* byte in UTF-8, "k" one of three bytes (a kana or kanji, as in the field
\* codes the service uses), written here k1 k2 k3.
Chars == {"a", "k"}

Texts == {<<c>> : c \in Chars}

RecordLists == UNION {[1..n -> Texts] : n \in 1..MaxArchived}

RECURSIVE stringify(_)
\* JSON.stringify(records): the records in order, separated by commas.
stringify(records) ==
    IF records = <<>> THEN <<>>
    ELSE IF Len(records) = 1 THEN Head(records)
    ELSE Head(records) \o <<",">> \o stringify(Tail(records))

RECURSIVE utf8(_)
\* The bytes written to records.json.
utf8(text) ==
    IF text = <<>> THEN <<>>
    ELSE (IF Head(text) = "k" THEN <<"k1", "k2", "k3">> ELSE <<Head(text)>>)
         \o utf8(Tail(text))

RECURSIVE toString(_)
\* chunk.toString(): the bytes of one chunk decoded on their own; bytes that
\* are no complete character there become U+FFFD, written "?".
toString(chunk) ==
    IF chunk = <<>> THEN <<>>
    ELSE IF Head(chunk) = "k1"
         THEN IF Len(chunk) >= 3 /\ chunk[2] = "k2" /\ chunk[3] = "k3"
              THEN <<"k">> \o toString(SubSeq(chunk, 4, Len(chunk)))
              ELSE IF Len(chunk) >= 2 /\ chunk[2] = "k2"
                   THEN <<"?">> \o toString(SubSeq(chunk, 3, Len(chunk)))
                   ELSE <<"?">> \o toString(Tail(chunk))
         ELSE IF Head(chunk) \in {"k2", "k3"}
              THEN <<"?">> \o toString(Tail(chunk))
              ELSE <<Head(chunk)>> \o toString(Tail(chunk))

RECURSIVE parse(_, _)
\* JSON.parse(recordsJson): the texts between the commas, in order (cur is
\* the text read since the last comma).
parse(json, cur) ==
    IF json = <<>> THEN <<cur>>
    ELSE IF Head(json) = "," THEN <<cur>> \o parse(Tail(json), <<>>)
    ELSE parse(Tail(json), Append(cur, Head(json)))

InitCodec ==
    /\ Start
    /\ call \in [fn : {"archive"}, arg : RecordLists, file : {<<>>}, count : {-1},
                 at : {0}, recordsJson : {<<>>}, out : {<<>>},
                 written : {FALSE}, done : {FALSE}]

\* createBackupZip: records.json holds JSON.stringify(records), the manifest
\* records.length.
WriteArchive ==
    /\ call.fn = "archive"
    /\ ~call.written
    /\ call' = [call EXCEPT !.file = utf8(stringify(call.arg)),
                            !.count = Len(call.arg), !.written = TRUE]
    /\ UNCHANGED <<clientFrame, apiRequestCount, retryCount, recordNumberFieldCache>>

\* extractBackupZip, entry 'data': the stream hands over the next n bytes of
\* records.json (the chunk boundaries are the stream's);
\* recordsJson += chunk.toString().
ReadChunk(n) ==
    /\ call.fn = "archive"
    /\ call.written
    /\ ~call.done
    /\ call.at + n <= Len(call.file)
    /\ call' = [call EXCEPT !.at = @ + n,
                            !.recordsJson = @ \o toString(SubSeq(call.file, call.at + 1,
                                                                 call.at + n))]
    /\ UNCHANGED <<clientFrame, apiRequestCount, retryCount, recordNumberFieldCache>>

\* extractBackupZip, entry 'end': records.push(...JSON.parse(recordsJson)).
ReadEnd ==
    /\ call.fn = "archive"
    /\ call.written
    /\ ~call.done
    /\ call.at = Len(call.file)
    /\ call' = [call EXCEPT !.out = parse(call.recordsJson, <<>>), !.done = TRUE]
    /\ UNCHANGED <<clientFrame, apiRequestCount, retryCount, recordNumberFieldCache>>

NextCodec ==
    \/ WriteArchive
    \/ \E n \in 1..(5 * MaxArchived) : ReadChunk(n)
    \/ ReadEnd

SpecCodec == InitCodec /\ [][NextCodec]_vars

\* ------------------------------------- downloadAttachments on explicit records
\* A record is a function from the field codes it carries to fields; the value
\* of a FILE field is its list of files, written as their number.
MaxAttachRecords == 2

\* Object.entries of a record lists its field codes in this order.
EntryOrder == <<"f", "g", "t">>

FieldType(code) == IF code = "t" THEN "SINGLE_LINE_TEXT" ELSE "FILE"

FileCounts(code) == IF FieldType(code) = "FILE" THEN 0..1 ELSE {0}

Codes == {EntryOrder[k] : k \in DOMAIN EntryOrder}

RecordShapes ==
    UNION {[S -> [type : {"FILE", "SINGLE_LINE_TEXT"}, value : 0..1]] : S \in SUBSET Codes}

AttachRecords ==
    {rec \in RecordShapes :
        \A c \in DOMAIN rec : rec[c].type = FieldType(c) /\ rec[c].value \in FileCounts(c)}

AttachLists == UNION {[1..n -> AttachRecords] : n \in 1..MaxAttachRecords}

\* A variant that collects the FILE fields of every record.
attachmentFieldsOfAll(records) ==
    {c \in Codes : \E i \in DOMAIN records :
                      c \in DOMAIN records[i] /\ records[i][c].type = "FILE"}

\* findAttachmentFields(records)
attachmentFields(records) ==
    IF Len(records) = 0 THEN {}
    ELSE {c \in DOMAIN records[1] : records[1][c].type = "FILE"}

\* The (record, field) pairs the loops of downloadAttachments stop at, in
\* order: each record, each attachment field, skipping a field the record
\* lacks or holds empty.
Targets(records, fields) ==
    LET n       == Len(EntryOrder)
        pairs   == [k \in 1..(Len(records) * n) |->
                      [record |-> ((k - 1) \div n) + 1, code |-> EntryOrder[((k - 1) % n) + 1]]]
        Test(p) == /\ p.code \in fields
                   /\ p.code \in DOMAIN records[p.record]
                   /\ records[p.record][p.code].value > 0
    IN SelectSeq(pairs, Test)

InitAttach ==
    /\ Start
    /\ call \in [fn : {"downloadAttachments"}, arg : AttachLists, stage : {"call"},
                 fields : {{}}, out : {<<>>}, saved : {{}}, done : {FALSE}]

\* const attachmentFields = this.findAttachmentFields(records); return when
\* there is none.
AttachEnter ==
    /\ call.fn = "downloadAttachments"
    /\ call.stage = "call"
    /\ LET fields == attachmentFields(call.arg)
       IN call' = [call EXCEPT !.fields = fields,
                               !.stage = IF fields = {} THEN "returned" ELSE "loop",
                               !.done = (fields = {})]
    /\ UNCHANGED <<clientFrame, apiRequestCount, retryCount, recordNumberFieldCache>>

\* downloadFile(file.fileKey) for the next file; the file is written when the
\* download resolves, and a failure is caught and logged.
AttachDownload(ok) ==
    /\ call.fn = "downloadAttachments"
    /\ call.stage = "loop"
    /\ LET targets == Targets(call.arg, call.fields)
           k       == Len(call.out) + 1
       IN /\ k <= Len(targets)
          /\ call' = [call EXCEPT !.out = Append(@, targets[k]),
                                  !.saved = IF ok THEN @ \cup {targets[k]} ELSE @]
    /\ UNCHANGED <<clientFrame, apiRequestCount, retryCount, recordNumberFieldCache>>

\* The loops are over.
AttachReturn ==
    /\ call.fn = "downloadAttachments"
    /\ call.stage = "loop"
    /\ Len(call.out) = Len(Targets(call.arg, call.fields))
    /\ call' = [call EXCEPT !.stage = "returned", !.done = TRUE]
    /\ UNCHANGED <<clientFrame, apiRequestCount, retryCount, recordNumberFieldCache>>

NextAttach ==
    \/ AttachEnter
    \/ \E ok \in BOOLEAN : AttachDownload(ok)
    \/ AttachReturn

SpecAttach == InitAttach /\ [][NextAttach]_vars

\* ------------------------------------------------------------------ claims
\* backupApp has ended and its caller has not yet taken the outcome.
BackupDone == pc = "done" /\ res.op = "backup"

\* The run row of the invocation that has just ended.
DoneRow == backups[res.id]

\* C1: every run row is created with status running, and once its status is
\* success or failure no later step changes that status (not a failure raised
\* after the success finalization, not another invocation).
C1_TerminalStatusIsFinal ==
    [][/\ \A id \in DOMAIN backups' \ DOMAIN backups : backups'[id].status = "running"
       /\ \A id \in DOMAIN backups \cap DOMAIN backups' :
             backups[id].status \in {"success", "failure"}
                => backups'[id].status = backups[id].status]_vars

\* C2: a run with status success and record_count > 0 has a file_path, and a
\* run with record_count = 0 has none.
C2_ArchiveReference ==
    \A id \in DOMAIN backups :
        /\ (backups[id].status = "success" /\ backups[id].record_count > 0)
              => backups[id].file_path # NoFile
        /\ backups[id].record_count = 0 => backups[id].file_path = NoFile

\* Both cases of C2 in one state: an archived success and an empty success.
C2_Witness ==
    /\ \E id \in DOMAIN backups :
          /\ backups[id].status = "success"
          /\ backups[id].record_count > 0
          /\ backups[id].file_path \in DOMAIN archives
    /\ \E id \in DOMAIN backups :
          backups[id].status = "success" /\ backups[id].record_count = 0

\* C3: when a successful backup of the app exists and no record was created
\* or updated after it ended, a differential backupApp fetches nothing, ends
\* as success with record_count 0 and no file_path, and writes no archive.
C3_UnchangedDifferentialIsEmpty ==
    /\ (pc = "b_fetched" /\ loc.backupType = "differential" /\ h.premise)
          => DOMAIN loc.records = {}
    /\ (BackupDone /\ res.kind = "returned" /\ res.backupType = "differential"
          /\ h.premise)
          => /\ res.recordCount = 0
             /\ h.zips = 0
             /\ DoneRow.status = "success"
             /\ DoneRow.record_count = 0
             /\ DoneRow.file_path = NoFile

\* C4: when backupApp has returned, the apps table has a row for the app, and
\* its last_backup_datetime is the end_time of the run just finalized.
C4_AppRowAdvanced ==
    (BackupDone /\ res.kind = "returned")
       => /\ res.appId \in DOMAIN apps
          /\ getLastBackupDatetime(apps, res.appId) = DoneRow.end_time

\* C5: a differential backupApp and a backupApp that throws leave
\* last_full_backup_datetime as it was (the one that throws leaves
\* last_backup_datetime too); the full-backup time differs from its value at
\* the start only after a full backup that returned with a success row.
C5_LastFullFrame ==
    BackupDone =>
       /\ res.backupType = "differential"
             => getLastFullBackupDatetime(apps, res.appId) = h.baseFull
       /\ res.kind = "thrown"
             => /\ getLastFullBackupDatetime(apps, res.appId) = h.baseFull
                /\ getLastBackupDatetime(apps, res.appId) = h.baseLast
       /\ getLastFullBackupDatetime(apps, res.appId) # h.baseFull
             => /\ res.backupType = "full"
                /\ res.kind = "returned"
                /\ DoneRow.status = "success"

\* A differential backup of an app that has a row returned after advancing
\* last_backup_datetime, with an earlier full-backup time in place.
C5_Witness ==
    /\ BackupDone
    /\ res.kind = "returned"
    /\ res.backupType = "differential"
    /\ res.appId \in DOMAIN apps
    /\ h.baseFull # NULL
    /\ getLastBackupDatetime(apps, res.appId) # h.baseLast

\* C6: the record set of a backup is a function of the backup type, the
\* stored last_backup_datetime and the live records only: without a stored
\* time (or for a full backup) all records, with one exactly the records
\* updated strictly after it; that time is what the run stores as
\* diff_base_datetime.  record_index does not occur in it.
C6_BaselineDeterminesRecords ==
    LET last == IF loc.appId \in DOMAIN apps
                THEN apps[loc.appId].last_backup_datetime ELSE NULL
        inc  == loc.backupType = "differential" /\ last # NULL
    IN /\ pc = "b_fetched" =>
            /\ loc.diffBase = (IF inc THEN last ELSE NULL)
            /\ DOMAIN loc.records =
                  {r \in RecIds : /\ live[loc.appId][r].rev > 0
                                  /\ inc => live[loc.appId][r].upd > last}
       /\ pc = "b_last" =>
            backups[currentBackupId].diff_base_datetime = (IF inc THEN last ELSE NULL)

\* A differential fetch with a stored time, markers in record_index, one
\* record updated exactly at the stored time (left out) and one after it.
C6_Witness ==
    /\ pc = "b_fetched"
    /\ loc.backupType = "differential"
    /\ loc.diffBase # NULL
    /\ DOMAIN record_index # {}
    /\ \E r \in RecIds : Exists(loc.appId, r) /\ live[loc.appId][r].upd = loc.diffBase
    /\ DOMAIN loc.records # {}

\* C7: a backupApp whose fetch returned no record and that returned has
\* finalized its run as success with record_count 0, no file_path, end time,
\* duration and the counters of that moment; no invocation with an empty
\* fetch writes an archive, downloads an attachment or writes a marker.
C7_EmptyFetch ==
    (loc.op # "restore" /\ res.op # "restore" /\ h.fetched = 0) =>
       /\ h.zips = 0 /\ h.downloads = 0 /\ h.dlFailed = 0 /\ h.markers = 0
       /\ (BackupDone /\ res.kind = "returned") =>
             /\ res.success /\ res.recordCount = 0
             /\ h.path = "empty"
             /\ DoneRow.status = "success"
             /\ DoneRow.record_count = 0
             /\ DoneRow.file_path = NoFile
             /\ DoneRow.end_time # NULL
             /\ DoneRow.duration_seconds = DoneRow.end_time - DoneRow.start_time
             /\ DoneRow.api_request_count = h.counted
             /\ DoneRow.retry_count = h.retries

\* backupApp returned after an empty fetch that needed a retried attempt.
C7_Witness ==
    /\ BackupDone
    /\ res.kind = "returned"
    /\ h.fetched = 0
    /\ h.retries > 0

\* C8: when backupApp throws after its row was created, the row has status
\* failure with the error, an end time and a duration, and the error thrown
\* is the one that was raised; no row is left running by a thrown backupApp.
C8_ThrownIsFailure ==
    (BackupDone /\ res.kind = "thrown" /\ res.id \in DOMAIN backups) =>
       /\ DoneRow.status = "failure"
       /\ DoneRow.error_details = h.raised
       /\ DoneRow.end_time # NULL
       /\ DoneRow.duration_seconds = DoneRow.end_time - DoneRow.start_time
       /\ res.err = h.raised
       /\ h.raised # NoErr

\* C8 (amended): when backupApp throws after its row was created, either the
\* row has status failure with the error raised, an end time and a duration,
\* and that error is the one thrown; or the finalizing write itself failed:
\* then its error is the one thrown and the row is as it was before (running,
\* or success when the error came after the success finalization).
C8_ThrownIsFailureIfRecorded ==
    (BackupDone /\ res.kind = "thrown" /\ res.id \in DOMAIN backups) =>
       \/ /\ DoneRow.status = "failure"
          /\ DoneRow.error_details = h.raised
          /\ DoneRow.end_time # NULL
          /\ DoneRow.duration_seconds = DoneRow.end_time - DoneRow.start_time
          /\ res.err = h.raised
          /\ h.raised # NoErr
       \/ /\ res.err = "finalize"
          /\ DoneRow.status = (IF h.path = "archived" THEN "success" ELSE "running")
          /\ DoneRow.error_details = NoErr

\* backupApp threw after it had archived the records and the row is failure.
C8_Witness ==
    /\ BackupDone
    /\ res.kind = "thrown"
    /\ res.id \in DOMAIN backups
    /\ h.zips > 0
    /\ DoneRow.status = "failure"

\* C9: whenever backupApp or restoreBackup has returned or thrown both
\* counters are 0; during an invocation they hold what that invocation has
\* counted, so the counters a run stores are bounded by its own requests.
C9_CountersPerInvocation ==
    /\ pc \in {"idle", "done"} => (apiRequestCount = 0 /\ retryCount = 0)
    /\ pc \notin {"idle", "done"} =>
          (apiRequestCount = h.counted /\ retryCount = h.retries)
    /\ (BackupDone /\ res.id \in DOMAIN backups) =>
          /\ DoneRow.api_request_count <= h.reqs
          /\ DoneRow.retry_count <= h.retries

\* A second invocation has ended after an invocation that counted requests
\* and a retry, and has itself sent requests.
C9_Witness ==
    /\ pc = "done"
    /\ runs = MaxRuns
    /\ errs > 0
    /\ h.reqs > 0
    /\ \E id \in DOMAIN backups : id # res.id /\ backups[id].retry_count > 0

\* C10: once the audit step of an invocation is over (skipped, written or
\* failed) the invocation returns, with the status it had derived before the
\* step; backupApp returns success and its row stays success.
C10_AuditNeverDecides ==
    (pc = "done" /\ h.audit # "none") =>
       /\ res.kind = "returned"
       /\ res.status = h.status
       /\ res.op = "backup" => (res.success /\ DoneRow.status = "success")
       /\ res.op = "restore" =>
             (res.success <=> res.status \in {"success", "partial_success"})

\* backupApp returned although the audit write failed.
C10_Witness ==
    /\ BackupDone
    /\ h.audit = "failed"
    /\ res.kind = "returned"
    /\ auditLog = <<>>

\* The rows of backups whose status is still running.
RunningRows == {id \in DOMAIN backups : backups[id].status = "running"}

\* The results list of runScheduledBackup: one entry for each app taken so
\* far, in the order of the apps list; a successful entry has a success row
\* of its app, a failed entry carries the error; the returned list covers the
\* whole apps list.
SchedResultsInOrder ==
    /\ Len(sched.results) = sched.next - 1
    /\ sched.next <= Len(sched.order) + 1
    /\ \A i \in DOMAIN sched.results :
          /\ sched.results[i].appId = sched.order[i]
          /\ sched.results[i].success =>
                \E id \in DOMAIN backups :
                    backups[id].app_id = sched.order[i] /\ backups[id].status = "success"
          /\ ~sched.results[i].success => sched.results[i].error # NoErr
    /\ sched.job = "returned" => Len(sched.results) = Len(sched.order)

\* C11 (as stated): during runScheduledBackup at most one run is in status
\* running and none is while the loop is between two apps; the results list
\* has one entry per app of the list, in order, failed apps with success = false.
C11_ScheduledOneRunning ==
    sched.job # "none" =>
       /\ Cardinality(RunningRows) <= 1
       /\ pc \in {"idle", "done"} => RunningRows = {}
       /\ SchedResultsInOrder

\* C11 (amended): the same, except that a run whose failure-finalizing write
\* failed stays running: the running rows are the row of the invocation in
\* progress and one for each invocation that ended with the error of that write.
C11_ScheduledSequential ==
    sched.job # "none" =>
       /\ SchedResultsInOrder
       /\ LET lost == Cardinality({i \in DOMAIN sched.results :
                                      sched.results[i].error = "finalize"})
                      + (IF pc = "done" /\ res.err = "finalize" THEN 1 ELSE 0)
          IN /\ pc \in {"idle", "done"} => Cardinality(RunningRows) <= lost
             /\ pc \notin {"idle", "done"} =>
                   (currentBackupId \in RunningRows \/ h.path = "archived")
             /\ Cardinality(RunningRows)
                   <= lost + (IF pc \in {"idle", "done"} THEN 0 ELSE 1)

\* runScheduledBackup returned a list of two entries whose first app failed
\* and whose second app succeeded.
C11_Witness ==
    /\ sched.job = "returned"
    /\ Len(sched.results) = 2
    /\ ~sched.results[1].success
    /\ sched.results[2].success

\* C12: a step that deletes a run leaves no marker whose last_backup_id is
\* that run, and leaves every other run, every marker of another run and the
\* whole apps table as they were.
C12_DeleteCascadeFrame ==
    [][\A id \in DOMAIN backups \ DOMAIN backups' :
          /\ \A k \in DOMAIN record_index' : record_index'[k].last_backup_id # id
          /\ DOMAIN backups' = DOMAIN backups \ {id}
          /\ \A other \in DOMAIN backups' : backups'[other] = backups[other]
          /\ \A k \in DOMAIN record_index :
                record_index[k].last_backup_id # id
                   => (k \in DOMAIN record_index' /\ record_index'[k] = record_index[k])
          /\ DOMAIN record_index' \subseteq DOMAIN record_index
          /\ apps' = apps]_vars

\* A run that had markers has been deleted; another run, a marker of that
\* other run and an apps row with a last backup time are in place.
C12_Witness ==
    /\ \E id \in 1..(nextId - 1) : id \notin DOMAIN backups
    /\ \E id \in DOMAIN backups, k \in DOMAIN record_index :
          record_index[k].last_backup_id = id
    /\ \A k \in DOMAIN record_index : record_index[k].last_backup_id \in DOMAIN backups
    /\ Cardinality(DOMAIN record_index) < Cardinality({r \in RecIds : Exists(1, r)})
    /\ \E a \in DOMAIN apps : apps[a].last_backup_datetime # NULL

\* C13: the write sequences of the store are atomic: a step that deletes the
\* markers of a run also deletes the run, and a backupApp that throws leaves
\* no marker of its run and no last-backup time of its own behind.
C13_SequencesAtomic ==
    [][/\ \A id \in DOMAIN backups :
             (\E k \in DOMAIN record_index \ DOMAIN record_index' :
                  record_index[k].last_backup_id = id)
                => id \notin DOMAIN backups'
       /\ (pc' = "done" /\ res'.op = "backup" /\ res'.kind = "thrown")
             => /\ \A k \in DOMAIN record_index' :
                      record_index'[k].last_backup_id # res'.id
                /\ res'.id \in DOMAIN backups' => backups'[res'.id].status # "success"]_vars

\* restoreBackup is past the partition loop.
Partitioned == loc.op = "restore" /\ pc \in {"r_update", "r_add", "r_audit", "r_ret"}

\* restoreBackup has ended and its caller has not yet taken the outcome.
RestoreDone == pc = "done" /\ res.op = "restore"

\* C14: after the partition loop the update set and the add set are disjoint,
\* together they are the records to restore, and the update set is exactly
\* the records whose key the service resolved to a live record.
C14_PartitionByResolution ==
    Partitioned =>
       /\ loc.updates \cap loc.adds = {}
       /\ loc.updates \cup loc.adds = DOMAIN loc.records
       /\ loc.updates = {r \in DOMAIN loc.records : r \in h.resolved}
       /\ \A r \in loc.adds : r \notin h.resolved

\* Both partitions are non-empty: one key resolved, one did not.
C14_Witness ==
    /\ Partitioned
    /\ pc = "r_update"
    /\ loc.updates # {}
    /\ loc.adds # {}

\* C15: the status derived by restoreBackup is success exactly when no
\* attempted partition failed, failure exactly when every attempted partition
\* failed, partial_success exactly when one succeeded and another failed; the
\* success flag returned is false only for failure.
C15_StatusByAttempts ==
    /\ (loc.op = "restore" /\ pc = "r_audit") =>
          LET failed == (IF h.triedUpd /\ loc.updateFailed THEN {"update"} ELSE {})
                        \cup (IF h.triedAdd /\ loc.addFailed THEN {"add"} ELSE {})
              passed == (IF h.triedUpd /\ ~loc.updateFailed THEN {"update"} ELSE {})
                        \cup (IF h.triedAdd /\ ~loc.addFailed THEN {"add"} ELSE {})
          IN /\ LocStatus = "success" <=> failed = {}
             /\ LocStatus = "failure" <=> (failed # {} /\ passed = {})
             /\ LocStatus = "partial_success" <=> (failed # {} /\ passed # {})
    /\ (RestoreDone /\ res.kind = "returned") =>
          (res.success <=> res.status # "failure")

\* C16: once restoreBackup has partitioned the records it returns; each
\* non-empty partition was attempted with its records, the add set also when
\* the update set had failed.
C16_PartitionsIndependent ==
    /\ (loc.op = "restore" /\ pc \in {"r_audit", "r_ret"}) =>
          /\ loc.updates # {} => (h.triedUpd /\ h.sentUpd = loc.updates)
          /\ loc.adds # {} => (h.triedAdd /\ h.sentAdd = loc.adds)
    /\ (RestoreDone /\ h.updates \cup h.adds # {}) =>
          /\ res.kind = "returned"
          /\ h.updates # {} => h.triedUpd
          /\ h.adds # {} => h.triedAdd

\* The update attempt failed and the add attempt was made and succeeded.
C16_Witness ==
    /\ loc.op = "restore"
    /\ pc = "r_audit"
    /\ loc.updateFailed
    /\ h.triedAdd
    /\ loc.addedCount > 0

\* C18: when the key lookup failed, restoreBackup goes on with an empty update
\* set and every record to restore in the add set; it attempts the add with
\* all of them, attempts no update, and returns.
C18_LookupFailureAddsAll ==
    h.mapFailed =>
       /\ Partitioned => (loc.updates = {} /\ loc.adds = DOMAIN loc.records)
       /\ pc \notin {"r_catch"}
       /\ RestoreDone =>
             /\ res.kind = "returned"
             /\ ~h.triedUpd
             /\ h.triedAdd
             /\ h.sentAdd = (IF h.sel # {} THEN h.archived \cap h.sel ELSE h.archived)

\* The lookup failed for a record that is present in the live app, which is
\* about to be inserted.
C18_Witness ==
    /\ h.mapFailed
    /\ pc = "r_add"
    /\ \E r \in loc.adds : Exists(loc.appId, r)

\* C19: a restoreBackup of a run that does not exist throws without any
\* remote call; one whose subset matches no archived record throws; neither
\* sends an update or an add.
C19_FailsBeforeSending ==
    RestoreDone =>
       /\ res.id \notin DOMAIN backups =>
             /\ res.kind = "thrown"
             /\ h.reqs = 0
             /\ ~h.triedUpd /\ ~h.triedAdd
       /\ (h.sel # {} /\ h.sel \cap h.archived = {}) =>
             /\ res.kind = "thrown"
             /\ ~h.triedUpd /\ ~h.triedAdd
             /\ h.sentUpd = {} /\ h.sentAdd = {}

\* A restore threw for a subset that matches none of the archived records.
C19_Witness ==
    /\ RestoreDone
    /\ h.archived # {}
    /\ h.sel # {}
    /\ h.sel \cap h.archived = {}
    /\ res.kind = "thrown"

\* C20: a restoreBackup with a non-empty subset that returns has sent, in its
\* update and add attempts together, exactly the archived records whose id is
\* in the subset, none of them in both.
C20_OnlyTheSubsetIsSent ==
    (RestoreDone /\ res.kind = "returned" /\ h.sel # {}) =>
       /\ h.sentUpd \cup h.sentAdd = h.archived \cap h.sel
       /\ h.sentUpd \cap h.sentAdd = {}

\* A restore of a proper subset of the archive returned.
C20_Witness ==
    /\ RestoreDone
    /\ res.kind = "returned"
    /\ h.sel # {}
    /\ h.archived \ h.sel # {}
    /\ h.sentUpd \cup h.sentAdd # {}

\* The types of the fields the service manages or computes itself.
SystemManagedTypes ==
    {"RECORD_NUMBER", "__ID__", "__REVISION__", "CREATOR", "CREATED_TIME",
     "MODIFIER", "UPDATED_TIME", "STATUS", "STATUS_ASSIGNEE", "CALC"}

\* C17: a cleaned record holds no field of a system-managed or computed type,
\* under any field code and at any depth (the rows of a table included), and
\* no field under the reserved codes $id and $revision.
C17_NoSystemFieldIsSent ==
    (call.fn = "cleanRecordForRestore" /\ call.done) =>
       \A f \in DOMAIN call.out :
          /\ f \notin {"$id", "$revision"}
          /\ call.out[f].type \notin SystemManagedTypes
          /\ call.out[f].cells \cap SystemManagedTypes = {}

\* Statuses of authentication and configuration errors.
FatalStatuses == {400, 401, 403}

\* C21: a call is retried at most 5 times; when it is rejected with a
\* transient error (no response, 429, 500, 502, 503, 504) all 5 retries were
\* made and 6 attempts sent, the error passed to the caller being that of the
\* last attempt; an attempt that fails with an authentication or
\* configuration error ends the call at once, rejected with that error.
C21_RetriesBoundedFatalNotRetried ==
    call.fn = "getApp" =>
       /\ call.retried <= 5
       /\ call.sent <= call.retried + 1
       /\ call.error.status \in FatalStatuses => call.done /\ call.out = "rejected"
       /\ (call.out = "rejected" /\ call.error.status \notin FatalStatuses) =>
             call.retried = 5 /\ call.sent = 6

C21_Witness ==
    /\ call.fn = "getApp"
    /\ call.out = "rejected"
    /\ call.error.status = 503
    /\ call.retried = 5
    /\ retryCount = 5

\* C22: the delay before retry n (1..5) is within 20% of
\* min(1000 * 2^(n-1), 32000) ms and is not below the delay before retry n-1.
C22_BackoffDelay ==
    (call.fn = "getApp" /\ call.retried >= 1) =>
       LET base == Min2(1000 * 2^(call.retried - 1), 32000)
       IN /\ call.retried <= 5
          /\ 10 * call.delay >= 8 * base
          /\ 10 * call.delay <= 12 * base
          /\ call.before <= call.delay

C22_Witness ==
    /\ call.fn = "getApp"
    /\ call.retried = 5
    /\ call.before > 8000
    /\ call.delay < 16000

\* C23: when the failed attempt was answered 429 with a Retry-After header,
\* the delay before the next attempt is the header's value (in ms).
C23_RetryAfterTakesPrecedence ==
    (/\ call.fn = "getApp"
     /\ ~call.done
     /\ call.retried >= 1
     /\ call.error.status = 429
     /\ call.error.retryAfter # 0) =>
       call.delay = call.error.retryAfter * 1000

\* C24: the retry counter equals the number of retries performed, and the
\* request counter is 1 once the call is sent, whatever the number of retries.
C24_RetryCounterCountsRetries ==
    call.fn = "getApp" =>
       /\ retryCount = call.retried
       /\ apiRequestCount = IF call.sent = 0 THEN 0 ELSE 1

\* C25: when a getAllRecords call has resolved the request counter has grown
\* by the number of pages fetched, at least 1 (also for an empty result);
\* when it has failed, the request counted before the call is still counted.
C25_OneRequestPerPage ==
    (call.fn = "getAllRecords" /\ call.done) =>
       IF call.out = "resolved"
       THEN apiRequestCount = call.pages /\ apiRequestCount >= 1
       ELSE apiRequestCount = 1

RECURSIVE Flatten(_)
Flatten(ss) == IF ss = <<>> THEN <<>> ELSE Head(ss) \o Flatten(Tail(ss))

\* C26: the batches sent by addRecords / updateRecords hold at most 100
\* records each, all but the last one exactly 100, and joined in the order
\* sent they are the first records given, all of them once the call has
\* resolved; when the call ends the request counter has grown by the number
\* of batches sent.
C26_BatchesOfHundred ==
    call.fn \in {"addRecords", "updateRecords"} =>
       /\ \A k \in 1..Len(call.batches) :
             /\ Len(call.batches[k]) >= 1
             /\ Len(call.batches[k]) <= 100
             /\ k < Len(call.batches) => Len(call.batches[k]) = 100
       /\ Flatten(call.batches) = SubSeq(call.arg, 1, Len(Flatten(call.batches)))
       /\ call.out = "resolved" => Flatten(call.batches) = call.arg
       /\ call.done => apiRequestCount = Len(call.batches)

C26_Witness ==
    /\ call.fn = "updateRecords"
    /\ call.out = "resolved"
    /\ Len(call.arg) = 201
    /\ Len(call.batches) = 3
    /\ apiRequestCount = 3

\* C27: findRecordIdsByRecordNumbers never throws; the map it returns has
\* exactly one entry for every key given, the identifier of the live record
\* when the key's query was answered and a live record carries the key, null
\* otherwise (no live record, the key's query failed, or no field code); no
\* query holds more than 50 keys, and when the field code is known every key
\* is queried once, also after a query that failed.
C27_OneEntryPerKey ==
    call.fn = "findRecordIdsByRecordNumbers" =>
       /\ call.out # "rejected"
       /\ \A c \in 1..Len(call.chunks) : Len(call.chunks[c]) \in 1..50
       /\ call.done =>
             /\ DOMAIN call.resultMap = 1..Len(call.arg)
             /\ \A k \in 1..Len(call.arg) :
                   call.resultMap[k] =
                      IF call.fieldCode /\ k \in call.found /\ k \notin call.failed
                      THEN 100 + k ELSE NULL
             /\ call.fieldCode => Flatten(call.chunks) = call.arg

C27_Witness ==
    /\ call.fn = "findRecordIdsByRecordNumbers"
    /\ call.done
    /\ Len(call.arg) = 101
    /\ call.found = 1..101
    /\ call.failed = 51..100
    /\ call.resultMap[50] = 150
    /\ call.resultMap[51] = NULL
    /\ call.resultMap[101] = 201

\* The steps of backupApp after downloadAttachments has returned.
AfterDownloads ==
    loc.op = "backup" /\ pc \in {"b_markers", "b_final", "b_last", "b_audit", "b_ret"}

\* C28: when attachment downloads are the only calls that failed, control
\* never reaches the catch block, every attachment of the fetched records has
\* been attempted when downloadAttachments returns, and the run is finalized
\* as success and backupApp returns success.
C28_DownloadFailureIsSkipped ==
    (h.dlFailed > 0 /\ errs = h.dlFailed) =>
       /\ pc # "b_catch"
       /\ AfterDownloads =>
             h.downloads + h.dlFailed
                = Cardinality(Attachments(loc.appId, DOMAIN loc.records))
       /\ BackupDone =>
             /\ res.kind = "returned"
             /\ res.success
             /\ DoneRow.status = "success"

C28_Witness ==
    /\ BackupDone
    /\ h.dlFailed = 1
    /\ h.downloads = 1
    /\ res.success
    /\ DoneRow.status = "success"
    /\ DoneRow.record_count = 2

\* C29: when the fetch of the field schema is the only call that failed,
\* control never reaches the catch block, the archive is written with the
\* fetched records, their count and a null field schema, and the run is
\* finalized as success with that archive.
C29_SchemaFailureIsTolerated ==
    (h.schemaFailed /\ errs = 1) =>
       /\ pc # "b_catch"
       /\ loc.op = "backup" =>
             /\ loc.zipName \in DOMAIN archives
             /\ archives[loc.zipName]
                   = [recs |-> loc.records,
                      count |-> Cardinality(DOMAIN loc.records), schema |-> FALSE]
       /\ BackupDone =>
             /\ res.success
             /\ DoneRow.status = "success"
             /\ DoneRow.file_path \in DOMAIN archives
             /\ ~archives[DoneRow.file_path].schema
             /\ archives[DoneRow.file_path].count = DoneRow.record_count

C29_Witness ==
    /\ BackupDone
    /\ h.schemaFailed
    /\ res.success
    /\ DoneRow.status = "success"
    /\ ~archives[DoneRow.file_path].schema
    /\ DOMAIN archives[DoneRow.file_path].recs = {1, 2}

\* C30: the records extracted from an archive are the records written to it,
\* in the same order and with the same content, and the manifest's record
\* count is their number.
C30_RoundTrip ==
    (call.fn = "archive" /\ call.done) =>
       /\ call.out = call.arg
       /\ call.count = Len(call.arg)

C32_OneAuditEntryPerBackup ==
    /\ (loc.op = "backup" \/ BackupDone) => h.audits <= 1
    /\ (BackupDone /\ h.path = "archived" /\ h.audit # "skipped") =>
          /\ h.audits = 1
          /\ h.entry.record_count = DoneRow.record_count
          /\ h.entry.status = DoneRow.status

FilesOf(records) ==
    {p \in [record : DOMAIN records, code : Codes] :
        /\ p.code \in DOMAIN records[p.record]
        /\ records[p.record][p.code].type = "FILE"
        /\ records[p.record][p.code].value > 0}

\* C34: the attachment fields are the FILE-typed field codes of the first
\* fetched record; a download is requested, once, for every file a record
\* holds under one of those codes and for no other file: a file a later
\* record holds under another code is never requested.
C34_FileFieldsOfFirstRecord ==
    (call.fn = "downloadAttachments" /\ call.stage # "call") =>
       LET first     == call.arg[1]
           codes     == {c \in DOMAIN first : first[c].type = "FILE"}
           requested == {call.out[k] : k \in DOMAIN call.out}
       IN /\ call.fields = codes
          /\ requested \subseteq {p \in FilesOf(call.arg) : p.code \in codes}
          /\ \A j, k \in DOMAIN call.out : j # k => call.out[j] # call.out[k]
          /\ call.done => requested = {p \in FilesOf(call.arg) : p.code \in codes}
          /\ call.saved \subseteq requested

\* A later record holds a file under a code the first record lacks, and the
\* call has ended after downloading the first record's file.
C34_Witness ==
    /\ call.fn = "downloadAttachments"
    /\ call.done
    /\ Len(call.arg) = 2
    /\ call.fields = {"f"}
    /\ [record |-> 2, code |-> "g"] \in FilesOf(call.arg)
    /\ call.out = <<[record |-> 1, code |-> "f"]>>

\* C35: when a differential backup of an app has fetched its records, every
\* live record that has changed since an earlier successful backup of the app
\* archived it is in the fetched set, also when the change fell between that
\* backup's fetch and its end time.
C35_NoChangeIsMissed ==
    (loc.op = "backup" /\ pc = "b_fetched" /\ loc.backupType = "differential") =>
       \A id \in DOMAIN backups :
          (/\ id # currentBackupId
           /\ backups[id].app_id = loc.appId
           /\ backups[id].status = "success"
           /\ backups[id].file_path \in DOMAIN archives) =>
             \A r \in DOMAIN archives[backups[id].file_path].recs :
                (/\ Exists(loc.appId, r)
                 /\ live[loc.appId][r].rev > archives[backups[id].file_path].recs[r].rev)
                   => r \in DOMAIN loc.records

\* C36: the count restoreBackup reports for a partition (addedCount,
\* updatedCount) is the number of records the service has added or updated,
\* also when addRecords / updateRecords fails after batches were accepted.
C36_CountsAreWhatWasApplied ==
    (call.fn \in {"addRecords", "updateRecords"} /\ call.count # NULL) =>
       call.count = call.applied

\* C37: between invocations every RecordMarker references an existing run of
\* its app, that run is a successful run, and no later successful run of the
\* app archived the record (the markers are keyed by app and record, so there
\* is one per pair).
C37_MarkerNamesLatestRun ==
    pc \in {"idle", "done"} =>
       \A k \in DOMAIN record_index :
          LET id == record_index[k].last_backup_id
          IN /\ id \in DOMAIN backups
             /\ backups[id].app_id = k[1]
             /\ backups[id].status = "success"
             /\ \A id2 \in DOMAIN backups :
                   (/\ id2 > id
                    /\ backups[id2].app_id = k[1]
                    /\ backups[id2].status = "success"
                    /\ backups[id2].file_path \in DOMAIN archives)
                      => k[2] \notin DOMAIN archives[backups[id2].file_path].recs

\* C38: no step of restoreBackup, from its entry to its return or throw,
\* changes the metadata store: runs, tracked apps, record markers and the id
\* counter are the same after the step as before.
C38_RestoreLeavesStoreUnchanged ==
    [][(loc.op = "restore" \/ loc'.op = "restore" \/ (pc = "idle" /\ res'.op = "restore"))
          => UNCHANGED dbVars]_vars

\* A restore that rewrote live records has returned, with runs and markers
\* in the store.
C38_Witness ==
    /\ RestoreDone
    /\ res.kind = "returned"
    /\ h.triedUpd
    /\ res.status = "success"
    /\ record_index # <<>>
    /\ res.id \in DOMAIN backups

\* C39: a delete-backup call on an existing run succeeds, whether or not the
\* run has an archive reference: when the handler has answered, the run row
\* and every marker referencing the run are gone.
C39_DeleteSucceedsForEveryRun ==
    (call.fn = "delete-backup" /\ call.done) =>
       /\ call.out = "resolved"
       /\ call.arg \notin DOMAIN backups
       /\ \A k \in DOMAIN record_index : record_index[k].last_backup_id # call.arg

============================================================================
